---------------------------- MODULE Spec2Model ----------------------------
(***************************************************************************)
(* A model of "Birds in Space" (src/main.py, src/renderer.py): the entity  *)
(* registry (objs), the damageable index (objsWithHP), the wall list, the  *)
(* entities' update / player_control / destroy methods, the scene changes  *)
(* of the GameManager and the three stages of mainloop (update, purge of   *)
(* dead entities, draw).                                                   *)
(*                                                                         *)
(* Numbers.  The source computes with floats; the model computes with      *)
(* integers in fixed units:                                                *)
(*   time      1 tick = 1/TicksPerSecond s (delta is a number of ticks);   *)
(*   length    1/PosScale world unit, with PosScale = TicksPerSecond, so   *)
(*             that speed [units/s] * delta [ticks] is a length;           *)
(*   hp        1/HpScale hit point, with HpScale = TicksPerSecond, so that *)
(*             hpRegen [hp/s] * delta [ticks] is an amount of hp;          *)
(*   angle     1/AngleScale rad; sin and cos are scaled by TrigScale.      *)
(* Attributes that only feed the drawing backend (colours, images, door    *)
(* geometry, polygon points) are left out of the entity records.           *)
(***************************************************************************)
EXTENDS Integers, Sequences, FiniteSets, TLC

VARIABLES
    scene_name,   \* gameManager.scene_name ("none" before the first change_scene)
    objs,         \* the registry: sequence of entity ids, in insertion order
    objsWithHP,   \* the damageable index
    walls,        \* the wall list
    ent,          \* ent[id]: the fields of entity id (every object ever constructed)
    me,           \* global me: id of the controlled entity, 0 for None
    bird2,        \* global bird2
    ship2,        \* global ship2
    bookOfAnswers,\* global bookOfAnswers
    keys,         \* the set of keys k with keys[k] == True
    mouse,        \* the mouse dict: x, y, left, scroll
    story,        \* the fields of storyController
    cam,          \* the camera fields of renderer
    crashed,      \* an exception left mainloop: root.after was not called again
    quit,         \* root.quit() was called
    pc,           \* position in mainloop: "idle", "updated", "purged"
    frame,        \* number of mainloop calls started
    nEvents,      \* number of input events delivered
    hist          \* history of the run, read by the properties only

vars == << scene_name, objs, objsWithHP, walls, ent, me, bird2, ship2, bookOfAnswers,
           keys, mouse, story, cam, crashed, quit, pc, frame, nEvents, hist >>

-----------------------------------------------------------------------------
(* Bounds of the model *)

MaxFrames == 3
MaxEvents == 2
DtShort == 1
DtLong == 60
TapeLen == 1

\* the frame durations tried: a short frame and a stall
Dts == {DtShort, DtLong}

\* the outcomes of random.random() tried, in quarters: 0/4 and 3/4
RandDen == 4
RandVals == {0, RandDen - 1}
Tapes == [1..TapeLen -> RandVals]

-----------------------------------------------------------------------------
(* Units *)

TicksPerSecond == 20
PosScale == TicksPerSecond
HpScale == TicksPerSecond
AngleScale == 80
TrigScale == 1000

CamScale == 10000

TEAM_ALLIANCE == 0
TEAM_ENEMY == 1

\* math.pi and 2 * math.pi in angle units.  On whole angle units a > Pi is
\* a > math.pi exactly (math.pi is 251.33 units).
Pi == 251
TwoPi == 503

Abs(n) == IF n < 0 THEN -n ELSE n

Min(a, b) == IF a < b THEN a ELSE b

Max(a, b) == IF a < b THEN b ELSE a

\* n / d rounded to the nearest integer
DivR(n, d) == (2 * n + d) \div (2 * d)

\* sin of m/1000 rad for 0 <= m <= 1600, scaled by TrigScale (Taylor, Horner form)
SinSeries(m) ==
    LET q == (m * m) \div 1000
    IN  (m * (1000000 - (q * (1000 - (q * (1000 - q \div 42)) \div 20000)) \div 6))
            \div 1000000

\* cos of m/1000 rad for 0 <= m <= 1600, scaled by TrigScale
CosSeries(m) ==
    LET q == (m * m) \div 1000
    IN  (1000000 - (q * (1000 - (q * (1000 - q \div 30)) \div 12000)) \div 2) \div 1000

\* an angle reduced to -Pi+1 .. Pi
Reduce(a) ==
    LET r == a % TwoPi
    IN  IF r > Pi THEN r - TwoPi ELSE r

Milli(a) == (a * 1000) \div AngleScale

\* math.sin(a), scaled by TrigScale
Sin(a) ==
    LET r == Reduce(a)
        s == IF r < 0 THEN -1 ELSE 1
        u == Abs(r)
        v == IF 2 * u > Pi THEN Pi - u ELSE u
    IN  s * SinSeries(Milli(v))

\* math.cos(a), scaled by TrigScale
Cos(a) ==
    LET u == Abs(Reduce(a))
    IN  IF 2 * u > Pi THEN -CosSeries(Milli(Pi - u)) ELSE CosSeries(Milli(u))

\* the angle a of lo..hi at which the vector (dx, dy) is closest to direction a:
\* dx * sin a - dy * cos a, which is |(dx, dy)| * sin(a - atan2(dy, dx)), changes
\* sign there.  Found by bisection.
RECURSIVE Bisect(_, _, _, _)
Bisect(lo, hi, dx, dy) ==
    LET cross(a) == dx * Sin(a) - dy * Cos(a)
        mid == (lo + hi) \div 2
    IN  IF hi - lo <= 1
        THEN IF Abs(cross(lo)) <= Abs(cross(hi)) THEN lo ELSE hi
        ELSE IF cross(mid) < 0 THEN Bisect(mid, hi, dx, dy) ELSE Bisect(lo, mid, dx, dy)

\* the bounds of the search for the angle of (dx, dy), by its quadrant
Quadrant(dy, dx) ==
    IF dx > 0 /\ dy >= 0 THEN <<0, 126>>
    ELSE IF dx <= 0 /\ dy > 0 THEN <<125, Pi>>
    ELSE IF dx < 0 THEN <<-Pi + 1, -125>>
    ELSE <<-126, 0>>

\* math.atan2(dy, dx) in angle units, searched in the quadrant of (dx, dy);
\* math.atan2(0, 0) is 0.  |dx|, |dy| < 2^20.
Atan2(dy, dx) ==
    IF dx = 0 /\ dy = 0 THEN 0
    ELSE IF dx < 0 /\ dy = 0 THEN Pi
    ELSE Bisect(Quadrant(dy, dx)[1], Quadrant(dy, dx)[2], dx, dy)

\* math.dist((ax, ay), (bx, by)) < r, for r >= 0, without overflow
DistLess(ax, ay, bx, by, r) ==
    /\ Abs(ax - bx) < r
    /\ Abs(ay - by) < r
    /\ (ax - bx) * (ax - bx) + (ay - by) * (ay - by) < r * r

-----------------------------------------------------------------------------
(* The world: the program state as one record, threaded through the methods.
   tape is the stream of random.random() outcomes of the running stage and ti
   the number of outcomes drawn from it. *)

World(tape) ==
    [ scene_name |-> scene_name, objs |-> objs, objsWithHP |-> objsWithHP,
      walls |-> walls, ent |-> ent, me |-> me, bird2 |-> bird2, ship2 |-> ship2,
      bookOfAnswers |-> bookOfAnswers, keys |-> keys, mouse |-> mouse,
      story |-> story, cam |-> cam, crashed |-> crashed, quit |-> quit,
      hist |-> hist, tape |-> tape, ti |-> 0 ]

\* the stage's result becomes the next state
Becomes(W) ==
    /\ scene_name' = W.scene_name
    /\ objs' = W.objs
    /\ objsWithHP' = W.objsWithHP
    /\ walls' = W.walls
    /\ ent' = W.ent
    /\ me' = W.me
    /\ bird2' = W.bird2
    /\ ship2' = W.ship2
    /\ bookOfAnswers' = W.bookOfAnswers
    /\ keys' = W.keys
    /\ mouse' = W.mouse
    /\ story' = W.story
    /\ cam' = W.cam
    /\ crashed' = W.crashed
    /\ quit' = W.quit
    /\ hist' = W.hist

Range(s) == {s[i] : i \in 1..Len(s)}

\* random.random(), in RandDen-ths
Rand(W) == W.tape[(W.ti % Len(W.tape)) + 1]

Drawn(W) == [W EXCEPT !.ti = @ + 1]

\* an uncaught exception: the rest of mainloop is skipped
Crash(W) == [W EXCEPT !.crashed = TRUE]

\* list.remove(x): the first occurrence of x leaves the list
SeqRemove(s, x) ==
    LET i == CHOOSE j \in 1..Len(s) : s[j] = x /\ \A k \in 1..(j - 1) : s[k] # x
    IN  SubSeq(s, 1, i - 1) \o SubSeq(s, i + 1, Len(s))

\* objs.remove(id); ValueError when id is not in objs
ObjsRemove(W, id) ==
    IF id \in Range(W.objs)
    THEN [W EXCEPT !.objs = SeqRemove(@, id), !.hist.removed = @ \cup {id},
                   !.hist.again = @ \cup ({id} \cap W.hist.removed)]
    ELSE Crash(W)

\* the object under construction gets the next id
NextId(W) == Len(W.ent) + 1

\* WorldObject.__init__: the new object rec is appended to objs
WorldObject(W, rec) ==
    [W EXCEPT !.ent = Append(@, rec), !.objs = Append(@, Len(W.ent) + 1)]

\* a number of world units as a length
P(n) == n * PosScale

-----------------------------------------------------------------------------
(* Constructors *)

Shields(W, x, y, w, h, team) ==
    LET id == NextId(W)
        W1 == WorldObject(W, [kind |-> "Shields", x |-> x, y |-> y, w |-> w, h |-> h,
                  size |-> h, brightness |-> 255, hp |-> 100 * HpScale,
                  maxHP |-> 100 * HpScale, hpRegen |-> 7, team |-> team])
    IN  [W1 EXCEPT !.objsWithHP = Append(@, id)]

Explosion(W, x, y) ==
    WorldObject(W, [kind |-> "Explosion", x |-> x, y |-> y, size |-> P(1) \div 10,
                    lifespan |-> TicksPerSecond \div 2])

\* originObj is never None in the source's calls
LaserBeam(W, x, y, theta, originObj) ==
    WorldObject(W, [kind |-> "LaserBeam", x |-> x, y |-> y,
                    vx |-> Cos(theta) * 120, vy |-> Sin(theta) * 120,
                    x2 |-> x - DivR(Cos(theta) * P(2), TrigScale),
                    y2 |-> y - DivR(Sin(theta) * P(2), TrigScale),
                    lifespan |-> 5 * TicksPerSecond, originObj |-> originObj,
                    team |-> W.ent[originObj].team])

Tile(W, parent, x, y, type) ==
    LET tx == x - (5 * PosScale) \div 2
        ty == y - PosScale \div 2
    IN  WorldObject(W, [kind |-> "Tile", x |-> tx, y |-> ty, type |-> type,
                        parent |-> parent, ax |-> W.ent[parent].x + tx,
                        ay |-> W.ent[parent].y + ty])

\* the tiles of the prebuilt ship: offsets and types
BasicShipTiles ==
    << <<2, -2, "weapon-r">>, <<1, -1, "ap">>, <<3, -1, "engine">>, <<0, 0, "control">>,
       <<2, 0, "ap">>, <<1, 1, "ap">>, <<3, 1, "engine">>, <<2, 2, "weapon-l">> >>

RECURSIVE AddTiles(_, _, _)
AddTiles(W, ship, k) ==
    IF k > Len(BasicShipTiles) THEN W
    ELSE LET t == BasicShipTiles[k]
             W1 == Tile(W, ship, P(t[1]), P(t[2]), t[3])
             W2 == [W1 EXCEPT !.ent[ship].tiles = Append(@, Len(W1.ent))]
         IN  AddTiles(W2, ship, k + 1)

\* a new ship has no tiles to remove; the eight tiles are built in order
convertToBasicShip(W, ship) == AddTiles(W, ship, 1)

\* objsWithHP.append(self) comes first, objs.append(self) last, after the tiles
AllianceShip(W, x, y) ==
    LET id == NextId(W)
        W1 == [W EXCEPT !.objsWithHP = Append(@, id),
                        !.ent = Append(@, [kind |-> "AllianceShip", x |-> x, y |-> y,
                            tiles |-> << >>, vx |-> 0, vy |-> 0, theta |-> 0,
                            stheta |-> 0, ctheta |-> TrigScale,
                            rotSpeed |-> (3 * AngleScale) \div (2 * TicksPerSecond),
                            chairX |-> PosScale \div 4, chairY |-> PosScale \div 2,
                            speed |-> 0, maxSpeed |-> 30 * 100, acc |-> 5, cockpit |-> 0,
                            shootCooldown |-> 0, shootCooldownMax |-> TicksPerSecond \div 4,
                            maxCamHt |-> CamScale, hp |-> 200 * HpScale,
                            maxHP |-> 200 * HpScale, size |-> P(3),
                            team |-> TEAM_ALLIANCE])]
        W2 == convertToBasicShip(W1, id)
    IN  [W2 EXCEPT !.objs = Append(@, id)]

SmallEnemyShip(W, x, y) ==
    LET id == NextId(W)
        W1 == WorldObject(W, [kind |-> "SmallEnemyShip", x |-> x, y |-> y,
                  theta |-> (Rand(W) * 2 * Pi) \div RandDen, hp |-> 10 * HpScale,
                  maxHP |-> 10 * HpScale, size |-> P(6),
                  shootCooldown |-> 2 * TicksPerSecond, shootReset |-> 2 * TicksPerSecond,
                  speed |-> 20, target |-> 0, targetCooldown |-> 5 * TicksPerSecond,
                  targetReset |-> 5 * TicksPerSecond,
                  turnSpeed |-> (3 * AngleScale) \div (4 * TicksPerSecond),
                  team |-> TEAM_ENEMY])
    IN  [Drawn(W1) EXCEPT !.objsWithHP = Append(@, id)]

\* the bounds are ordered: x <= x2 and y <= y2
CollisionWall(W, x, y, x2, y2) ==
    LET id == NextId(W)
        W1 == WorldObject(W, [kind |-> "CollisionWall", x |-> Min(x, x2), y |-> Min(y, y2),
                              x2 |-> Max(x, x2), y2 |-> Max(y, y2)])
    IN  [W1 EXCEPT !.walls = Append(@, id)]

\* the first Turret of objs that has no station yet, 0 when there is none
FreeTurret(W) ==
    LET free == {i \in 1..Len(W.objs) :
                    W.ent[W.objs[i]].kind = "Turret" /\ W.ent[W.objs[i]].station = 0}
    IN  IF free = {} THEN 0
        ELSE W.objs[CHOOSE i \in free : \A j \in free : i <= j]

\* the station claims the first unclaimed Turret that is in objs
TurretStation(W, x, y, team) ==
    LET id == NextId(W)
        W1 == WorldObject(W, [kind |-> "TurretStation", x |-> x, y |-> y, controls |-> 0,
                  cockpit |-> 0, size |-> P(1), shootCooldown |-> 0,
                  shootCooldownMax |-> TicksPerSecond \div 10, targetX |-> 0,
                  targetY |-> 0, theta |-> 0, theta2 |-> 0, gotoTargetX |-> 0,
                  gotoTargetY |-> 0, maxCamHt |-> (3 * CamScale) \div 2, target |-> 0, team |-> team,
                  targetInstance |-> IF team = TEAM_ALLIANCE THEN "SmallEnemyShip"
                                     ELSE "AllianceShip",
                  targetCooldown |-> (37 * TicksPerSecond) \div 10,
                  targetReset |-> (37 * TicksPerSecond) \div 10])
        t == FreeTurret(W1)
    IN  IF t = 0 THEN W1
        ELSE [W1 EXCEPT !.ent[id].controls = t, !.ent[t].station = id]

Turret(W, x, y, team) ==
    WorldObject(W, [kind |-> "Turret", x |-> x, y |-> y, theta |-> 0, station |-> 0,
                    size |-> P(20), team |-> team])

AllianceMotherShip(W, x, y, s, sx) ==
    WorldObject(W, [kind |-> "AllianceMotherShip", x |-> x, y |-> y, size |-> s,
                    size2 |-> sx, spawnShipCooldown |-> TicksPerSecond,
                    spawnShipReset |-> TicksPerSecond])

EnemyMotherShip(W, x, y, s) ==
    LET id == NextId(W)
        W1 == WorldObject(W, [kind |-> "EnemyMotherShip", x |-> x, y |-> y, size |-> s,
                  spawnShipCooldown |-> 5 * TicksPerSecond,
                  spawnShipReset |-> 5 * TicksPerSecond, start |-> FALSE,
                  hp |-> 800 * HpScale, maxHP |-> 800 * HpScale, team |-> TEAM_ENEMY])
    IN  [W1 EXCEPT !.objsWithHP = Append(@, id)]

Bird(W, x, y, flipped) ==
    WorldObject(W, [kind |-> "Bird", x |-> x, y |-> y, size |-> (13 * PosScale) \div 20,
                    speed |-> 5, flipped |-> flipped, nearestShip |-> 0, lastX |-> x,
                    lastY |-> y, maxCamHt |-> (4 * CamScale) \div 100, follower |-> 0,
                    followerDistance |-> P(1)])

Decoration(W, x, y, decorIndex) ==
    WorldObject(W, [kind |-> "Decoration", x |-> x, y |-> y, decorIndex |-> decorIndex,
                    size |-> P(1)])

RectRoom(W, x, y, x2, y2) ==
    WorldObject(W, [kind |-> "RectRoom", x |-> x, y |-> y, x2 |-> x2, y2 |-> y2])

\* x and y are screen pixels
MenuText(W, x, y, text) ==
    WorldObject(W, [kind |-> "MenuText", x |-> x, y |-> y, text |-> text])

\* command is the scene the option changes to, or "quit"
MenuOption(W, text, x, y, command) ==
    WorldObject(W, [kind |-> "MenuOption", text |-> text, x |-> x, y |-> y, w |-> 100,
                    h |-> 20, command |-> command, hover |-> FALSE])

-----------------------------------------------------------------------------
(* Methods.  delta is a number of ticks. *)

IsKind(W, id, k) == id # 0 /\ W.ent[id].kind = k

RECURSIVE Gcd(_, _)
Gcd(a, b) == IF b = 0 THEN a ELSE Gcd(b, a % b)

\* the ellipse formula with the half-axes taken for each other
EllipseInsideSwapped(dx, dy, w, h) ==
    LET g == Gcd(w, h)
        wr == w \div g
        hr == h \div g
    IN  /\ Abs(dx) <= h
        /\ Abs(dy) <= w
        /\ dx * dx * wr * wr + dy * dy * hr * hr <= wr * wr * hr * hr * g * g

\* the ellipse formula dx^2 / w^2 + dy^2 / h^2 <= 1 for w, h > 0, cleared of
\* its denominators and of the common factor of w and h
EllipseInside(dx, dy, w, h) ==
    LET g == Gcd(w, h)
        wr == w \div g
        hr == h \div g
    IN  /\ Abs(dx) <= w
        /\ Abs(dy) <= h
        /\ dx * dx * hr * hr + dy * dy * wr * wr <= wr * wr * hr * hr * g * g

\* obj.isInside(x, y), for the classes of objsWithHP
isInside(W, id, x, y) ==
    LET o == W.ent[id]
    IN  IF o.kind = "Shields"
        THEN EllipseInside(x - o.x, y - o.y, o.w, o.h)
        ELSE DistLess(o.x, o.y, x, y, o.size)

\* what a true answer of isInside leaves behind: a shield flares up
Flare(W, id) ==
    IF W.ent[id].kind = "Shields" THEN [W EXCEPT !.ent[id].brightness = 255] ELSE W

\* round(n / 2) as Python rounds: a half goes to the even neighbour
RoundHalf(n) ==
    IF n % 2 = 0 THEN n \div 2
    ELSE IF ((n - 1) \div 2) % 2 = 0 THEN (n - 1) \div 2 ELSE (n + 1) \div 2

Shields_update(W, id, delta) ==
    LET o == W.ent[id]
        dim == Min(o.brightness, Max(1, RoundHalf((delta * 255 * 4) \div TicksPerSecond)))
        W1 == IF W.scene_name = "game" /\ o.brightness > 0
              THEN [W EXCEPT !.ent[id].brightness = @ - dim] ELSE W
    IN  IF o.hp < o.maxHP THEN [W1 EXCEPT !.ent[id].hp = @ + o.hpRegen * delta] ELSE W1

\* a lifespan that has run out: self.lifespan < 0
ExpiredNever(o) == FALSE

Expired(o) == o.lifespan < 0

Explosion_update(W, id, delta) ==
    LET W1 == [W EXCEPT !.ent[id].size = @ + 2 * delta,
                        !.ent[id].lifespan = @ - delta]
    IN  IF Expired(W1.ent[id])
        THEN [ObjsRemove(W1, id) EXCEPT !.hist.expired = @ \cup {id}]
        ELSE W1

\* the entities of objsWithHP of another team that the head (x, y) is inside
\* of, in list order, each with the square of its distance to the head
Overlapped(W, team, x, y) ==
    LET hostile(o) == W.ent[o].team # team /\ isInside(W, o, x, y)
        far(o) == (W.ent[o].x - x) * (W.ent[o].x - x) + (W.ent[o].y - y) * (W.ent[o].y - y)
        seen == SelectSeq(W.objsWithHP, hostile)
    IN  [k \in 1..Len(seen) |-> [id |-> seen[k], far |-> far(seen[k])]]

\* the last entity of objsWithHP of another team that the head is inside of
BeamVictimLast(W, team, x, y) ==
    LET hit == {i \in 1..Len(W.objsWithHP) :
                   /\ W.ent[W.objsWithHP[i]].team # team
                   /\ isInside(W, W.objsWithHP[i], x, y)}
    IN  IF hit = {} THEN 0
        ELSE W.objsWithHP[CHOOSE i \in hit : \A j \in hit : i >= j]

\* the first entity of objsWithHP, of any team, that the head is inside of
BeamVictimAnyTeam(W, team, x, y) ==
    LET hit == {i \in 1..Len(W.objsWithHP) : isInside(W, W.objsWithHP[i], x, y)}
    IN  IF hit = {} THEN 0
        ELSE W.objsWithHP[CHOOSE i \in hit : \A j \in hit : i <= j]

\* the first entity of objsWithHP of another team that the head is inside of,
\* 0 when there is none
BeamVictim(W, team, x, y) ==
    LET hit == {i \in 1..Len(W.objsWithHP) :
                   /\ W.ent[W.objsWithHP[i]].team # team
                   /\ isInside(W, W.objsWithHP[i], x, y)}
    IN  IF hit = {} THEN 0
        ELSE W.objsWithHP[CHOOSE i \in hit : \A j \in hit : i <= j]

\* a beam that goes on after its hit: the victim loses 1 hp, the beam stays
ImpactPiercing(W, id, v) ==
    LET b == W.ent[id]
    IN  Explosion([Flare(W, v) EXCEPT !.ent[v].hp = @ - HpScale], b.x, b.y)

\* the hit of beam id on v: obj.hp -= 1, objs.remove(self), Explosion(x, y)
Impact(W, id, v) ==
    LET b == W.ent[id]
        W1 == ObjsRemove([Flare(W, v) EXCEPT !.ent[v].hp = @ - HpScale], id)
    IN  IF W1.crashed THEN W1 ELSE Explosion(W1, b.x, b.y)

LaserBeam_update(W, id, delta) ==
    LET b == W.ent[id]
        nx == b.x + DivR(b.vx * delta, TrigScale)
        ny == b.y + DivR(b.vy * delta, TrigScale)
        W1 == [W EXCEPT !.ent[id].x = nx, !.ent[id].y = ny,
                        !.ent[id].x2 = @ + DivR(b.vx * delta, TrigScale),
                        !.ent[id].y2 = @ + DivR(b.vy * delta, TrigScale),
                        !.ent[id].lifespan = @ - delta]
        v == BeamVictim(W1, b.team, nx, ny)
        friends == {o \in Range(W1.objsWithHP) :
                       W1.ent[o].team = b.team /\ isInside(W1, o, nx, ny)}
    IN  IF Expired(W1.ent[id])
        THEN [ObjsRemove(W1, id) EXCEPT !.hist.expired = @ \cup {id}]
        ELSE IF v = 0
        THEN [W1 EXCEPT !.hist.friendly = @ \cup {<<id, o>> : o \in friends}]
        ELSE LET W2 == Impact(W1, id, v)
             IN  [W2 EXCEPT !.hist.hits = Append(@,
                      [beam |-> id, victim |-> v, frame |-> W.hist.now,
                       x |-> nx, y |-> ny,
                       changed |-> {<<o, W2.ent[o].hp - W.ent[o].hp>> :
                                       o \in {q \in Range(W.objsWithHP) :
                                                 W2.ent[q].hp # W.ent[q].hp}},
                       made |-> (Len(W.ent) + 1)..Len(W2.ent),
                       inObjs |-> id \in Range(W2.objs),
                       over |-> Overlapped(W1, b.team, nx, ny)])]

\* Tile.transform turning the other way
transform_mirrored(W, id, x, y) ==
    LET t == W.ent[id]
        p == W.ent[t.parent]
    IN  << p.x + DivR((t.x + x) * p.ctheta + (t.y + y) * p.stheta, TrigScale),
           p.y + DivR((t.y + y) * p.ctheta - (t.x + x) * p.stheta, TrigScale) >>

\* Tile.transform(x, y): the offset (x, y) of the tile, turned with the cached
\* sine and cosine of the parent
transform(W, id, x, y) ==
    LET t == W.ent[id]
        p == W.ent[t.parent]
    IN  << p.x + DivR((t.x + x) * p.ctheta - (t.y + y) * p.stheta, TrigScale),
           p.y + DivR((t.y + y) * p.ctheta + (t.x + x) * p.stheta, TrigScale) >>

\* ghost: the shooters that have discharged, each with the simulated time
\* that the update passes have counted since its last discharge
Elapsed(since, delta) == { <<p[1], p[2] + delta>> : p \in since }

\* ghost: shooter id discharges; need is the cooldown it has to wait out
Discharged(W, id, need) ==
    LET last == { p \in W.hist.since : p[1] = id }
    IN  [W EXCEPT !.hist.since = (@ \ last) \cup { <<id, 0>> },
                  !.hist.gaps = @ \cup { [id |-> id, gap |-> p[2], need |-> need] :
                                            p \in last }]

\* ghost: a reader of the cached sine and cosine of ship id, with what it reads
Used(W, id, by) ==
    [W EXCEPT !.hist.uses = @ \cup {[id |-> id, by |-> by, theta |-> W.ent[id].theta,
                                      stheta |-> W.ent[id].stheta,
                                      ctheta |-> W.ent[id].ctheta]}]

\* the door animation of a tile only feeds its drawing
Tile_update(W, id, delta) ==
    LET t == W.ent[id]
        p == W.ent[t.parent]
    IN  [Used(W, t.parent, "Tile.update") EXCEPT
            !.ent[id].ax = p.x + DivR(t.x * p.ctheta - t.y * p.stheta, TrigScale),
            !.ent[id].ay = p.y + DivR(t.y * p.ctheta + t.x * p.stheta, TrigScale)]

RECURSIVE ShootTiles(_, _, _)
ShootTiles(W, id, k) ==
    LET s == W.ent[id]
    IN  IF k > Len(s.tiles) THEN W
        ELSE LET t == s.tiles[k]
                 xy == transform(W, t, P(1), PosScale \div 2)
             IN  IF W.ent[t].type \in {"weapon-l", "weapon-r"} /\ W.ent[t].parent # 0
                 THEN ShootTiles(LaserBeam(W, xy[1], xy[2], s.theta + Pi, id), id, k + 1)
                 ELSE ShootTiles(W, id, k + 1)

\* a shoot() that leaves the cooldown as it is
shoot_uncooled(W, id) ==
    IF W.ent[id].shootCooldown < 0
    THEN ShootTiles(Discharged(Used(W, id, "shoot"), id, W.ent[id].shootCooldownMax), id, 1)
    ELSE W

\* AllianceShip.shoot
shoot(W, id) ==
    IF W.ent[id].shootCooldown < 0
    THEN ShootTiles([Discharged(Used(W, id, "shoot"), id, W.ent[id].shootCooldownMax)
                        EXCEPT !.ent[id].shootCooldown = W.ent[id].shootCooldownMax],
                    id, 1)
    ELSE W

AllianceShip_update(W, id, delta) ==
    LET s == W.ent[id]
        st == Sin(s.theta)
        ct == Cos(s.theta)
        nvx == -DivR(ct * s.speed, TrigScale)
        nvy == -DivR(st * s.speed, TrigScale)
        nx == s.x + DivR(nvx * delta, 100)
        ny == s.y + DivR(nvy * delta, 100)
        W1 == [W EXCEPT !.ent[id].shootCooldown = @ - delta,
                        !.ent[id].stheta = st, !.ent[id].ctheta = ct,
                        !.ent[id].vx = nvx, !.ent[id].vy = nvy,
                        !.ent[id].x = nx, !.ent[id].y = ny]
    IN  IF s.cockpit # 0
        THEN [W1 EXCEPT
                 !.ent[s.cockpit].x = nx + DivR(s.chairX * ct - s.chairY * st, TrigScale),
                 !.ent[s.cockpit].y = ny + DivR(s.chairY * ct + s.chairX * st, TrigScale)]
        ELSE W1

RECURSIVE DestroyTiles(_, _, _)
DestroyTiles(W, id, k) ==
    IF W.crashed \/ k > Len(W.ent[id].tiles) THEN W
    ELSE LET t == W.ent[id].tiles[k]
             W1 == Explosion(W, W.ent[t].ax, W.ent[t].ay)
         IN  DestroyTiles(ObjsRemove(W1, t), id, k + 1)

\* a destroy that leaves the tiles alone
AllianceShip_destroy_none(W, id) == W

\* AllianceShip.destroy: an Explosion for each tile, the tile leaves objs
AllianceShip_destroy(W, id) ==
    LET W1 == DestroyTiles(W, id, 1)
    IN  IF W1.crashed THEN W1 ELSE [W1 EXCEPT !.ent[id].tiles = << >>]

\* keys.get(k, False)
KeyDown(W, k) == k \in W.keys

\* player_control with neither the clamp of delta nor the cap of acc
AllianceShip_player_control_uncapped(W, id, delta0) ==
    LET s == W.ent[id]
        acc == 2 * delta0 * s.acc
        sp == IF KeyDown(W, "w")
              THEN s.speed + DivR((s.maxSpeed - s.speed) * acc, 2 * TicksPerSecond)
              ELSE IF KeyDown(W, "s")
              THEN s.speed + DivR((0 - s.speed) * acc, 2 * TicksPerSecond)
              ELSE s.speed
        W1 == [W EXCEPT !.ent[id].speed = sp]
        W2 == IF KeyDown(W, "Return")
              THEN [W1 EXCEPT !.keys = @ \ {"Return"}, !.me = s.cockpit,
                              !.ent[id].cockpit = 0]
              ELSE W1
    IN  IF W.mouse.left THEN shoot(W2, id) ELSE W2

\* player_control whose exit empties the cockpit and leaves no controlled entity
AllianceShip_player_control_stranded(W, id, delta0) ==
    LET s == W.ent[id]
        delta == Min(delta0, TicksPerSecond \div 10)
        acc == Min(TicksPerSecond, 2 * delta * s.acc)
        sp == IF KeyDown(W, "w")
              THEN s.speed + DivR((s.maxSpeed - s.speed) * acc, 2 * TicksPerSecond)
              ELSE s.speed
        W1 == [W EXCEPT !.ent[id].speed = sp]
        W2 == IF KeyDown(W, "Return")
              THEN [W1 EXCEPT !.keys = @ \ {"Return"}, !.me = 0, !.ent[id].cockpit = 0]
              ELSE W1
    IN  IF W.mouse.left THEN shoot(W2, id) ELSE W2

AllianceShip_player_control(W, id, delta0) ==
    LET s == W.ent[id]
        delta == Min(delta0, TicksPerSecond \div 10)
        \* acc = min(0.5, delta * self.acc), in units of 1 / (2 * TicksPerSecond)
        acc == Min(TicksPerSecond, 2 * delta * s.acc)
        sp == IF KeyDown(W, "w")
              THEN s.speed + DivR((s.maxSpeed - s.speed) * acc, 2 * TicksPerSecond)
              ELSE IF KeyDown(W, "s")
              THEN s.speed + DivR((0 - s.speed) * acc, 2 * TicksPerSecond)
              ELSE s.speed
        th == s.theta - (IF KeyDown(W, "a") THEN delta * s.rotSpeed ELSE 0)
                      + (IF KeyDown(W, "d") THEN delta * s.rotSpeed ELSE 0)
        W1 == [W EXCEPT !.ent[id].speed = sp, !.ent[id].theta = th]
        W2 == IF KeyDown(W, "Return")
              THEN [W1 EXCEPT !.keys = @ \ {"Return"}, !.me = s.cockpit,
                              !.ent[id].cockpit = 0]
              ELSE W1
    IN  IF W.mouse.left THEN shoot(W2, id) ELSE W2

\* the entities of objsWithHP of kind k, in list order
Candidates(W, k) == SelectSeq(W.objsWithHP, LAMBDA i : W.ent[i].kind = k)

\* random.choice(c) for a non-empty c
Choice(W, c) == c[((Rand(W) * Len(c)) \div RandDen) + 1]

\* the turn of the heading theta towards an angle that is angleDiff away, by
\* rot at most: theta wraps by a full turn when angleDiff is beyond a half turn
Turn(theta, angleDiff, rot) ==
    LET th1 == IF angleDiff > Pi THEN theta - TwoPi
               ELSE IF angleDiff < -Pi THEN theta + TwoPi
               ELSE theta
    IN  IF Abs(angleDiff) > rot
        THEN IF angleDiff > 0 THEN th1 + rot ELSE th1 - rot
        ELSE th1

\* the heading of entity id turned towards the angle goal by at most rot, the
\* step kept in the history
Steered(W, id, goal, rot) ==
    LET old == W.ent[id].theta
        Logged(new) ==
            [W EXCEPT !.ent[id].theta = new,
                      !.hist.steers = Append(@, [id |-> id, old |-> old, goal |-> goal,
                                                 rot |-> rot, new |-> new])]
    IN  Logged(Turn(old, goal - old, rot))

\* the steering of a SmallEnemyShip towards its target
Steer(W, id, delta) ==
    LET e == W.ent[id]
        t == W.ent[e.target]
    IN  Steered(W, id, Atan2(t.y - e.y, t.x - e.x), e.turnSpeed * delta)

\* a re-roll of the target of entity id among the candidates c is over: the
\* candidates, the index they were taken from and the outcome are kept in the
\* history
Picked(W, id, c) ==
    [W EXCEPT !.hist.picks = Append(@, [id |-> id, pool |-> c, index |-> W.objsWithHP,
                                        target |-> W.ent[id].target])]

\* the re-targeting of an AI-controlled TurretStation: two draws when the
\* first is below 0.75, else one draw and one more for a choice
\* entity id registers a projectile: its target and its cooldown at that
\* moment are kept in the history
Fired(W, id) ==
    LET e == W.ent[id]
        need == IF e.kind = "SmallEnemyShip" THEN e.shootReset ELSE e.shootCooldownMax
    IN  [Discharged(W, id, need) EXCEPT
            !.hist.shots = Append(@, [id |-> id, target |-> e.target,
                                      cooldown |-> e.shootCooldown,
                                      beam |-> NextId(W)])]

SmallEnemyShip_update(W, id, delta) ==
    IF W.scene_name # "game" THEN W
    ELSE
    LET e == W.ent[id]
        dx == DivR(Cos(e.theta) * PosScale, 2 * TrigScale)
        dy == DivR(Sin(e.theta) * PosScale, 2 * TrigScale)
        Move(W5) ==
            [W5 EXCEPT
               !.ent[id].x = @ + DivR(Cos(W5.ent[id].theta) * e.speed * delta, TrigScale),
               !.ent[id].y = @ + DivR(Sin(W5.ent[id].theta) * e.speed * delta, TrigScale)]
        Heading(W4) == Move(IF W4.ent[id].target # 0 THEN Steer(W4, id, delta) ELSE W4)
        Target(W3) ==
            LET c == Candidates(W3, "AllianceShip")
            IN  Heading(IF W3.ent[id].targetCooldown < 0
                        THEN Picked(IF Len(c) = 0
                                    THEN [W3 EXCEPT !.ent[id].targetCooldown = e.targetReset,
                                                    !.ent[id].target = 0]
                                    ELSE [Drawn(W3) EXCEPT
                                             !.ent[id].targetCooldown = e.targetReset,
                                             !.ent[id].target = Choice(W3, c)],
                                    id, c)
                        ELSE W3)
        Cool(W2) == Target([W2 EXCEPT !.ent[id].targetCooldown = @ - delta])
        Twice(W6) ==
            LaserBeam(
              LaserBeam([W6 EXCEPT !.ent[id].shootCooldown = e.shootReset],
                        e.x + dx, e.y + dy, e.theta, id),
              e.x - dx, e.y - dy, e.theta, id)
        Shoot(W1) == Cool(IF W1.ent[id].shootCooldown < 0 THEN Twice(Fired(W1, id)) ELSE W1)
    IN  Shoot([W EXCEPT !.ent[id].shootCooldown = @ - delta])

\* a re-targeting that takes random.choice of the candidates unguarded:
\* IndexError when there is none
RetargetUnguarded(W, id) ==
    LET t == W.ent[id]
        W1 == Drawn(W)
        c == Candidates(W, t.targetInstance)
    IN  IF Rand(W) * 4 < 3 * RandDen
        THEN [Drawn(W1) EXCEPT !.ent[id].target = 0,
                 !.ent[id].targetCooldown = (t.targetReset * Rand(W1)) \div RandDen]
        ELSE Picked(IF Len(c) > 0
                    THEN [Drawn(W1) EXCEPT !.ent[id].targetCooldown = t.targetReset,
                                           !.ent[id].target = Choice(W1, c)]
                    ELSE Crash([W1 EXCEPT !.ent[id].targetCooldown = t.targetReset]),
                    id, c)

Retarget(W, id) ==
    LET t == W.ent[id]
        W1 == Drawn(W)
        c == Candidates(W, t.targetInstance)
    IN  IF Rand(W) * 4 < 3 * RandDen
        THEN [Drawn(W1) EXCEPT !.ent[id].target = 0,
                 !.ent[id].targetCooldown = (t.targetReset * Rand(W1)) \div RandDen]
        ELSE Picked(IF Len(c) > 0
                    THEN [Drawn(W1) EXCEPT !.ent[id].targetCooldown = t.targetReset,
                                           !.ent[id].target = Choice(W1, c)]
                    ELSE [W1 EXCEPT !.ent[id].targetCooldown = t.targetReset,
                                    !.ent[id].target = 0],
                    id, c)

TurretStation_update(W, id, delta) ==
    LET Beam(W4, th) ==
            LET c == W4.ent[W4.ent[id].controls]
            IN  LaserBeam([W4 EXCEPT !.ent[id].theta2 = th,
                                     !.ent[id].shootCooldown = W4.ent[id].shootCooldownMax],
                          c.x, c.y, th, id)
        Aim(W3, th) ==
            IF W3.ent[id].shootCooldown < 0
            THEN Beam(Fired(W3, id), th)
            ELSE [W3 EXCEPT !.ent[id].theta2 = th]
        Track(W3) ==
            LET t == W3.ent[id]
                tg == W3.ent[t.target]
                c == W3.ent[t.controls]
            IN  IF t.target # 0 /\ t.controls # 0
                THEN Aim(W3, Atan2(tg.y - c.y, tg.x - c.x))
                ELSE W3
        Pick(W2) == Track(IF W2.ent[id].targetCooldown < 0 THEN Retarget(W2, id) ELSE W2)
    IN  IF W.ent[id].cockpit # 0
        THEN [W EXCEPT !.ent[id].shootCooldown = @ - delta]
        ELSE Pick([W EXCEPT !.ent[id].shootCooldown = @ - delta,
                            !.ent[id].targetCooldown = @ - delta])

Turret_update(W, id, delta) ==
    IF W.ent[id].station # 0
    THEN [W EXCEPT !.ent[id].theta = W.ent[W.ent[id].station].theta2]
    ELSE W

\* a mother ship that spawns whenever its cooldown runs out, full or not
AllianceMotherShip_update_uncounted(W, id, delta) ==
    IF W.scene_name # "game" THEN W
    ELSE
    LET m == W.ent[id]
        W1 == [W EXCEPT !.ent[id].spawnShipCooldown = @ - delta]
    IN  IF W1.ent[id].spawnShipCooldown < 0
        THEN AllianceShip(Drawn([W1 EXCEPT !.ent[id].spawnShipCooldown = m.spawnShipReset]),
                          m.x - P(16), m.y + (Rand(W1) * P(20)) \div RandDen)
        ELSE W1

AllianceMotherShip_update(W, id, delta) ==
    IF W.scene_name # "game" THEN W
    ELSE
    LET m == W.ent[id]
        W1 == [W EXCEPT !.ent[id].spawnShipCooldown = @ - delta]
    IN  IF W1.ent[id].spawnShipCooldown < 0
        THEN LET W2 == [W1 EXCEPT !.ent[id].spawnShipCooldown = m.spawnShipReset]
             IN  IF Len(Candidates(W2, "AllianceShip")) < 2
                 THEN AllianceShip(Drawn(W2), m.x - P(16),
                                   m.y + (Rand(W2) * P(20)) \div RandDen)
                 ELSE W2
        ELSE W1

RECURSIVE SpawnEnemies(_, _, _)
SpawnEnemies(W, id, n) ==
    IF n = 0 THEN W
    ELSE SpawnEnemies(SmallEnemyShip(W, W.ent[id].x, W.ent[id].y), id, n - 1)

EnemyMotherShip_update(W, id, delta) ==
    IF W.scene_name # "game" \/ Len(W.objsWithHP) >= 10 THEN W
    ELSE
    LET m == W.ent[id]
        W1 == IF m.start
              THEN [SpawnEnemies(W, id, 8) EXCEPT !.ent[id].start = FALSE]
              ELSE W
        W2 == [W1 EXCEPT !.ent[id].spawnShipCooldown = @ - delta]
    IN  IF W2.ent[id].spawnShipCooldown < 0
        THEN SmallEnemyShip([W2 EXCEPT !.ent[id].spawnShipCooldown = m.spawnShipReset],
                            m.x, m.y)
        ELSE W2

RECURSIVE DestroyMother(_, _, _)
DestroyMother(W, id, n) ==
    IF n = 0 \/ W.crashed THEN W
    ELSE LET m == W.ent[id]
             W1 == Drawn(W)
             ox == ((2 * Rand(W) - RandDen) * m.size) \div RandDen
             oy == ((2 * Rand(W1) - RandDen) * m.size) \div RandDen
         IN  DestroyMother(Explosion(Drawn(W1), m.x + ox, m.y + oy), id, n - 1)

\* EnemyMotherShip.destroy: 50 Explosions around the ship
EnemyMotherShip_destroy(W, id) == DestroyMother(W, id, 50)

\* renderer.RevX / RevY: screen pixel to world length
RevX(W, x) == DivR((x - 600 \div 2) * W.cam.camHt * PosScale, CamScale) + W.cam.camX

RevY(W, y) == DivR((y - 600 \div 2) * W.cam.camHt * PosScale, CamScale) + W.cam.camY

(* Exact fractions [n, d] with d > 0 in lowest terms, so that equal values
   are equal records.  Screen coordinates are in pixels, world coordinates
   in world length units (1 / PosScale). *)
Frac(n, d) ==
    LET g == Gcd(Abs(n), d) IN [n |-> n \div g, d |-> d \div g]

\* q + k for an integer k
FracPlus(q, k) == [n |-> q.n + k * q.d, d |-> q.d]

\* a * b, cancelling across before multiplying
FracTimes(a, b) ==
    LET g1 == Gcd(Abs(a.n), b.d)
        g2 == Gcd(Abs(b.n), a.d)
    IN  [n |-> (a.n \div g1) * (b.n \div g2), d |-> (a.d \div g2) * (b.d \div g1)]

\* world length units per pixel (camHt), and its inverse
PerPixel(W) == Frac(W.cam.camHt * PosScale, CamScale)

PerUnit(W) == Frac(CamScale, W.cam.camHt * PosScale)

\* renderer.X without the camera offset
X_uncentred(W, x) == FracPlus(FracTimes(x, PerUnit(W)), 600 \div 2)

\* renderer.X / Y: world coordinate to screen pixel, hw + (x - camX) / camHt
X(W, x) == FracPlus(FracTimes(FracPlus(x, -W.cam.camX), PerUnit(W)), 600 \div 2)

Y(W, y) == FracPlus(FracTimes(FracPlus(y, -W.cam.camY), PerUnit(W)), 600 \div 2)

\* renderer.RevX / RevY before rounding: (x - hw) * camHt + camX
RevXq(W, x) == FracPlus(FracTimes(FracPlus(x, -(600 \div 2)), PerPixel(W)), W.cam.camX)

RevYq(W, y) == FracPlus(FracTimes(FracPlus(y, -(600 \div 2)), PerPixel(W)), W.cam.camY)

\* A station without a turret has controls None: reading controls.x raises
\* AttributeError.
TurretStation_player_control(W, id, delta) ==
    LET t == W.ent[id]
    IN  IF t.controls = 0 THEN Crash(W)
        ELSE
        LET c == W.ent[t.controls]
            distFromTurret == (Max(0, (600 * 3) \div 4 - W.mouse.x) * 350 * PosScale) \div 600
            theta == Pi - DivR((2 * W.mouse.y - 600) * 5 * AngleScale, 4 * 600)
            Act(W1, th2) ==
                IF W.mouse.left
                THEN IF t.shootCooldown < 0
                     THEN LaserBeam([Discharged(W1, id, t.shootCooldownMax) EXCEPT
                                        !.ent[id].shootCooldown = t.shootCooldownMax],
                                    c.x, c.y, th2, id)
                     ELSE W1
                ELSE IF KeyDown(W, "Return")
                THEN [W1 EXCEPT !.keys = @ \ {"Return"}, !.me = t.cockpit,
                                !.ent[t.cockpit].y = @ + t.size \div 2]
                ELSE W1
            Aimed(gx, gy, th2) ==
                Act([W EXCEPT !.ent[id].theta = theta, !.ent[id].gotoTargetX = gx,
                              !.ent[id].gotoTargetY = gy,
                              !.ent[id].targetX = @ + DivR(gx - @, 5),
                              !.ent[id].targetY = @ + DivR(gy - @, 5),
                              !.ent[id].theta2 = th2], th2)
        IN  Aimed(c.x + DivR(distFromTurret * Cos(theta), TrigScale),
                  c.y + DivR(distFromTurret * Sin(theta), TrigScale),
                  Atan2(RevY(W, W.mouse.y) - c.y, RevX(W, W.mouse.x) - c.x))

\* the squared distance of two points that are less than r apart in x and in y
Dist2(ax, ay, bx, by) == (ax - bx) * (ax - bx) + (ay - by) * (ay - by)

Bird_player_control(W, id, delta) ==
    LET b == W.ent[id]
        vy0 == (IF KeyDown(W, "s") THEN b.speed * delta ELSE 0)
               - (IF KeyDown(W, "w") THEN b.speed * delta ELSE 0)
        vx0 == (IF KeyDown(W, "d") THEN b.speed * delta ELSE 0)
               - (IF KeyDown(W, "a") THEN b.speed * delta ELSE 0)
        fl == IF KeyDown(W, "d") THEN TRUE ELSE IF KeyDown(W, "a") THEN FALSE ELSE b.flipped
        \* math.sqrt(2) / 2 is 0.707
        vx == IF vx0 # 0 /\ vy0 # 0 THEN DivR(vx0 * 707, 1000) ELSE vx0
        vy == IF vx0 # 0 /\ vy0 # 0 THEN DivR(vy0 * 707, 1000) ELSE vy0
        n == b.nearestShip
        f == b.follower
        Pull(W2, dx, dy, angle) ==
            LET near == /\ Abs(dx) <= b.followerDistance
                        /\ Abs(dy) <= b.followerDistance
                        /\ Dist2(dx, dy, 0, 0) <= b.followerDistance * b.followerDistance
                direction == IF near THEN 0 ELSE 1
            IN  [W2 EXCEPT
                   !.ent[f].x = @ + DivR(Cos(angle) * b.speed * 85 * direction * delta,
                                         100 * TrigScale),
                   !.ent[f].y = @ + DivR(Sin(angle) * b.speed * 85 * direction * delta,
                                         100 * TrigScale),
                   !.ent[f].flipped = dx > 0]
        Follow(W2) ==
            IF f = 0 THEN W2
            ELSE Pull(W2, W2.ent[id].x - W2.ent[f].x, W2.ent[id].y - W2.ent[f].y,
                      Atan2(W2.ent[id].y - W2.ent[f].y, W2.ent[id].x - W2.ent[f].x))
        Board(W1) ==
            Follow(IF KeyDown(W, "Return") /\ n # 0
                   THEN [W1 EXCEPT !.keys = @ \ {"Return"}, !.me = n,
                                   !.ent[id].x = W.ent[n].x, !.ent[id].y = W.ent[n].y,
                                   !.ent[n].cockpit = id]
                   ELSE W1)
    IN  Board([W EXCEPT !.ent[id].lastX = b.x, !.ent[id].lastY = b.y,
                        !.ent[id].flipped = fl,
                        !.ent[id].x = @ + vx, !.ent[id].y = @ + vy])

\* the nearest AllianceShip or TurretStation of objs less than 3 units away,
\* the first of objs among equally near ones; 0 when there is none
NearestShip(W, id) ==
    LET b == W.ent[id]
        ok(i) == /\ W.ent[W.objs[i]].kind \in {"AllianceShip", "TurretStation"}
                 /\ DistLess(b.x, b.y, W.ent[W.objs[i]].x, W.ent[W.objs[i]].y, P(3))
        d2(i) == Dist2(b.x, b.y, W.ent[W.objs[i]].x, W.ent[W.objs[i]].y)
        near == {i \in 1..Len(W.objs) : ok(i)}
    IN  IF near = {} THEN 0
        ELSE W.objs[CHOOSE i \in near :
                        \A j \in near : d2(i) < d2(j) \/ (d2(i) = d2(j) /\ i <= j)]

\* the push of one wall on the bird
WallPush(b, wall) ==
    IF wall.x = wall.x2
    THEN IF b.y + b.size <= wall.y \/ b.y >= wall.y2 THEN b
         ELSE IF b.x + b.size > wall.x /\ b.x - b.size < wall.x
         THEN IF b.x < wall.x THEN [b EXCEPT !.x = wall.x - b.size]
              ELSE [b EXCEPT !.x = wall.x + b.size]
         ELSE b
    ELSE IF b.x + b.size <= wall.x \/ b.x >= wall.x2 THEN b
         ELSE IF b.y + b.size > wall.y /\ b.y - b.size < wall.y
         THEN IF b.y < wall.y THEN [b EXCEPT !.y = wall.y - b.size]
              ELSE [b EXCEPT !.y = wall.y + b.size]
         ELSE b

RECURSIVE WallsPush(_, _, _)
WallsPush(W, b, k) ==
    IF k > Len(W.walls) THEN b ELSE WallsPush(W, WallPush(b, W.ent[W.walls[k]]), k + 1)

Bird_update(W, id, delta) ==
    LET b == [W.ent[id] EXCEPT !.nearestShip = NearestShip(W, id)]
    IN  [W EXCEPT !.ent[id] = WallsPush(W, b, 1)]

-----------------------------------------------------------------------------
(* Scenes *)

\* The level of the "game" scene, in the order of the source.  Of each run of
\* constructor calls of one class that differ in their coordinates only, the
\* first call is kept: one RectRoom of 7, one CollisionWall of 25, one Turret
\* and one TurretStation of each team, one Decoration of 2.
GameLevel(W0) ==
    LET Me(W6) == [Bird(W6, P(-14), P(20), TRUE) EXCEPT !.me = NextId(W6)]
        Bird2(W7) == [Bird(W7, P(-11), P(19), FALSE) EXCEPT !.bird2 = NextId(W7)]
        Ship2(W11) == [AllianceShip(W11, P(-21), P(-17)) EXCEPT !.ship2 = NextId(W11)]
        Book(W15) == [Decoration(W15, P(14), P(33), 3) EXCEPT !.bookOfAnswers = NextId(W15)]
        W1 == AllianceMotherShip(W0, P(0), P(-12), P(50), P(25))
        W2 == RectRoom(W1, P(-23), P(-60), P(22), P(-51))
        W3 == CollisionWall(W2, P(-25), P(-23), P(-8), P(-23))
        W4 == Turret(W3, P(-22), P(-27), TEAM_ALLIANCE)
        W5 == TurretStation(W4, P(-18), P(-58), TEAM_ALLIANCE)
        W6 == Decoration(W5, P(-9), P(21), 0)
        W8 == Bird2(Me(W6))
        W9 == EnemyMotherShip(W8, P(-282), P(-24), P(22))
        W10 == Turret(W9, P(-263), P(-46), TEAM_ENEMY)
        W11 == TurretStation(W10, P(99999), P(-58), TEAM_ENEMY)
        W13 == AllianceShip(Ship2(W11), P(-19), P(-1))
        W14 == Shields(W13, P(0), P(-12), P(40), P(68), TEAM_ALLIANCE)
        W15 == Shields(W14, P(-282), P(-24), P(38), P(38), TEAM_ENEMY)
    IN  Book(W15)

MenuLevel(W0) ==
    LET W1 == MenuText(W0, 600 \div 2, 600 \div 2 - 120, "Birds in Space")
        W2 == MenuOption(W1, "Start Game", 600 \div 2, 600 \div 2 - 20, "game")
        W3 == MenuOption(W2, "Level Editor", 600 \div 2, 600 \div 2 + 30, "level_editor")
        W4 == MenuOption(W3, "Credits", 600 \div 2, 600 \div 2 + 80, "credits")
    IN  MenuOption(W4, "Exit", 600 \div 2, 600 \div 2 + 130, "quit")

\* the scaffolding of the level editor: the mother ship and the first RectRoom of 7
EditorLevel(W0) ==
    RectRoom(AllianceMotherShip(W0, P(0), P(-12), P(50), P(25)),
             P(-23), P(-60), P(22), P(-51))

CreditsLevel(W0) ==
    LET W1 == MenuOption(W0, "Back to Menu", 600 \div 2, 600 \div 2 + 120, "menu")
        W2 == MenuText(W1, 600 \div 2, 600 \div 2 - 35, "Created by")
        W3 == MenuText(W2, 600 \div 2, 600 \div 2 - 15, "Special thanks")
        W4 == MenuText(W3, 600 \div 2, 600 \div 2 + 5, "This game was created")
    IN  MenuText(W4, 600 \div 2, 600 \div 2 + 25, "Thanks for playing!")

\* a scene change that keeps the objects of the old scene in objs
change_scene_keep(W, scene) ==
    IF W.scene_name = scene THEN W
    ELSE LET W1 == [W EXCEPT !.scene_name = scene, !.hist.sceneChanged = TRUE,
                             !.hist.staleHP = Range(W.objsWithHP),
                             !.hist.staleWalls = Range(W.walls),
                             !.hist.before = Len(W.ent)]
         IN  CASE scene = "menu" -> MenuLevel(W1)
               [] scene = "game" -> GameLevel(W1)
               [] scene = "level_editor" -> EditorLevel(W1)
               [] scene = "credits" -> CreditsLevel(W1)
               [] OTHER -> W1

\* GameManager.change_scene: objs is cleared; objsWithHP and walls are not
change_scene(W, scene) ==
    IF W.scene_name = scene THEN W
    ELSE LET W1 == [W EXCEPT !.scene_name = scene, !.objs = << >>,
                             !.hist.sceneChanged = TRUE,
                             !.hist.staleHP = Range(W.objsWithHP),
                             !.hist.staleWalls = Range(W.walls),
                             !.hist.before = Len(W.ent)]
         IN  CASE scene = "menu" -> MenuLevel(W1)
               [] scene = "game" -> GameLevel(W1)
               [] scene = "level_editor" -> EditorLevel(W1)
               [] scene = "credits" -> CreditsLevel(W1)
               [] OTHER -> W1

\* the command of a MenuOption: a scene change, or root.quit()
Command(W, c) == IF c = "quit" THEN [W EXCEPT !.quit = TRUE] ELSE change_scene(W, c)

MenuOption_update(W, id, delta) ==
    LET o == W.ent[id]
        hover == /\ W.mouse.x > o.x - o.w \div 2
                 /\ W.mouse.x < o.x + o.w \div 2
                 /\ W.mouse.y > o.y - o.h \div 2
                 /\ W.mouse.y < o.y + o.h \div 2
        W1 == [W EXCEPT !.ent[id].hover = hover]
    IN  IF hover /\ W.mouse.left
        THEN [Command(W1, o.command) EXCEPT !.mouse.left = FALSE]
        ELSE W1

\* obj.update(delta)
update(W, id, delta) ==
    LET k == W.ent[id].kind
    IN  CASE k = "Shields" -> Shields_update(W, id, delta)
          [] k = "Explosion" -> Explosion_update(W, id, delta)
          [] k = "LaserBeam" -> LaserBeam_update(W, id, delta)
          [] k = "Tile" -> Tile_update(W, id, delta)
          [] k = "AllianceShip" -> AllianceShip_update(W, id, delta)
          [] k = "SmallEnemyShip" -> SmallEnemyShip_update(W, id, delta)
          [] k = "TurretStation" -> TurretStation_update(W, id, delta)
          [] k = "Turret" -> Turret_update(W, id, delta)
          [] k = "AllianceMotherShip" -> AllianceMotherShip_update(W, id, delta)
          [] k = "EnemyMotherShip" -> EnemyMotherShip_update(W, id, delta)
          [] k = "Bird" -> Bird_update(W, id, delta)
          [] k = "MenuOption" -> MenuOption_update(W, id, delta)
          [] OTHER -> W

\* me.player_control(delta)
player_control(W, delta) ==
    LET k == W.ent[W.me].kind
    IN  CASE k = "Bird" -> Bird_player_control(W, W.me, delta)
          [] k = "AllianceShip" -> AllianceShip_player_control(W, W.me, delta)
          [] k = "TurretStation" -> TurretStation_player_control(W, W.me, delta)

\* obj.destroy()
destroy(W, id) ==
    LET k == W.ent[id].kind
    IN  CASE k = "AllianceShip" -> AllianceShip_destroy(W, id)
          [] k = "EnemyMotherShip" -> EnemyMotherShip_destroy(W, id)
          [] OTHER -> W

-----------------------------------------------------------------------------
(* The camera and the story *)

\* a Renderer.update that consumes the scroll before it moves camHt
renderer_update_zoomFirst(W) ==
    LET c == W.cam
        g1 == IF W.mouse.scroll < 0 THEN (c.camGotoHt * 12) \div 10
              ELSE IF W.mouse.scroll > 0 THEN (c.camGotoHt * 8) \div 10
              ELSE c.camGotoHt
        g2 == IF W.me # 0 /\ g1 > W.ent[W.me].maxCamHt THEN W.ent[W.me].maxCamHt ELSE g1
        g3 == IF g2 < (5 * CamScale) \div 1000 THEN (5 * CamScale) \div 1000 ELSE g2
        c1 == [c EXCEPT !.cullX1 = RevX(W, 0) - P(2), !.cullY1 = RevY(W, 0) - P(1),
                        !.cullX2 = RevX(W, 600) + P(1), !.cullY2 = RevY(W, 600) + P(1),
                        !.camHt = @ + (g3 - @) \div 2]
    IN  [W EXCEPT !.cam = [c1 EXCEPT !.camGotoHt = g3], !.mouse.scroll = 0]

\* a Renderer.update without the limit of the controlled entity
renderer_update_unclamped(W) ==
    LET c == W.cam
        c1 == [c EXCEPT !.cullX1 = RevX(W, 0) - P(2), !.cullY1 = RevY(W, 0) - P(1),
                        !.cullX2 = RevX(W, 600) + P(1), !.cullY2 = RevY(W, 600) + P(1),
                        !.camHt = @ + (c.camGotoHt - @) \div 2]
        g1 == IF W.mouse.scroll < 0 THEN (c.camGotoHt * 12) \div 10
              ELSE IF W.mouse.scroll > 0 THEN (c.camGotoHt * 8) \div 10
              ELSE c.camGotoHt
        g3 == IF g1 < (5 * CamScale) \div 1000 THEN (5 * CamScale) \div 1000 ELSE g1
    IN  [W EXCEPT !.cam = [c1 EXCEPT !.camGotoHt = g3], !.mouse.scroll = 0]

\* Renderer.update
renderer_update(W) ==
    LET c == W.cam
        c1 == [c EXCEPT !.cullX1 = RevX(W, 0) - P(2), !.cullY1 = RevY(W, 0) - P(1),
                        !.cullX2 = RevX(W, 600) + P(1), !.cullY2 = RevY(W, 600) + P(1),
                        !.camHt = @ + (c.camGotoHt - @) \div 2]
        g1 == IF W.mouse.scroll < 0 THEN (c.camGotoHt * 12) \div 10
              ELSE IF W.mouse.scroll > 0 THEN (c.camGotoHt * 8) \div 10
              ELSE c.camGotoHt
        g2 == IF W.me # 0 /\ g1 > W.ent[W.me].maxCamHt THEN W.ent[W.me].maxCamHt ELSE g1
        g3 == IF g2 < (5 * CamScale) \div 1000 THEN (5 * CamScale) \div 1000 ELSE g2
    IN  [W EXCEPT !.cam = [c1 EXCEPT !.camGotoHt = g3], !.mouse.scroll = 0]

\* Renderer.levelEditorControls
levelEditorControls(W) ==
    LET step == (W.cam.camHt * (600 \div 2) * PosScale) \div (10 * CamScale)
    IN  [W EXCEPT
           !.cam.camY = @ - (IF KeyDown(W, "w") THEN step ELSE 0)
                          + (IF KeyDown(W, "s") THEN step ELSE 0),
           !.cam.camX = @ - (IF KeyDown(W, "a") THEN step ELSE 0)
                          + (IF KeyDown(W, "d") THEN step ELSE 0),
           !.cam.camGotoHt =
               LET u == IF KeyDown(W, "Up") THEN (@ * 9) \div 10 ELSE @
               IN  IF KeyDown(W, "Down") THEN (u * 11) \div 10 ELSE u]

\* the camera follows the controlled entity in the game scene
CameraFollow(W) ==
    IF W.scene_name = "level_editor" THEN levelEditorControls(W)
    ELSE IF W.scene_name = "game"
    THEN IF W.me = 0 THEN Crash(W)
         ELSE IF W.ent[W.me].kind = "TurretStation"
         THEN [W EXCEPT !.cam.camX = W.ent[W.me].targetX, !.cam.camY = W.ent[W.me].targetY]
         ELSE [W EXCEPT !.cam.camX = W.ent[W.me].x, !.cam.camY = W.ent[W.me].y]
    ELSE W

\* len(currentDialog)
DialogLen(d) ==
    CASE d = "startDialog" -> 11
      [] d = "bookDialog" -> 2
      [] d = "askForHelpDialog" -> 7
      [] d = "hangarInfoDialog" -> 3
      [] d = "endDialog" -> 3

setCurrentDialog(W, d) ==
    [W EXCEPT !.story.currentDialog = d, !.story.storyStep = 0, !.story.inDialog = TRUE]

\* isinstance(obj, Shields) or isinstance(obj, EnemyMotherShip)
RestorableAll(o) == TRUE

Restorable(o) == o.kind \in {"Shields", "EnemyMotherShip"}

\* obj.hp = obj.maxHP
RestoredOver(o) == [o EXCEPT !.hp = o.maxHP + HpScale]

Restored(o) == [o EXCEPT !.hp = o.maxHP]

\* a story that restores nothing
makeObjectsIndestructible_skipped(W) == W

RECURSIVE Indestructible(_, _)
Indestructible(W, k) ==
    IF k > Len(W.objsWithHP) THEN W
    ELSE LET id == W.objsWithHP[k]
         IN  IF Restorable(W.ent[id])
             THEN Indestructible(
                      [W EXCEPT !.ent[id] = Restored(@),
                                !.hist.resets = @ \cup (IF W.ent[id].hp # W.ent[id].maxHP
                                                        THEN {id} ELSE {})], k + 1)
             ELSE Indestructible(W, k + 1)

makeObjectsIndestructible(W) == Indestructible(W, 1)

StoryDialog(W) ==
    IF W.mouse.left \/ KeyDown(W, "space")
    THEN LET W1 == [W EXCEPT !.mouse.left = FALSE, !.keys = @ \ {"space"},
                             !.story.storyStep = @ + 1]
         IN  IF W1.story.storyStep > DialogLen(W1.story.currentDialog) - 1
             THEN [W1 EXCEPT !.story.inDialog = FALSE]
             ELSE W1
    ELSE W

\* me.follower = f: only a Bird reads its follower
SetFollower(o, f) == IF o.kind = "Bird" THEN [o EXCEPT !.follower = f] ELSE o

\* the EXPLORE stage; [0] of an empty list raises IndexError
StoryExplore(W) ==
    LET c == Candidates(W, "EnemyMotherShip")
        m == W.ent[W.me]
        book == W.ent[W.bookOfAnswers]
        b2 == W.ent[W.bird2]
    IN  IF W.story.octagonRef = 0 /\ Len(c) = 0 THEN Crash(W)
        ELSE
        LET W1 == IF W.story.octagonRef = 0 THEN [W EXCEPT !.story.octagonRef = c[1]]
                  ELSE W
        IN  IF DistLess(m.x, m.y, book.x, book.y, P(2))
            THEN IF KeyDown(W, "space")
                 THEN setCurrentDialog([W1 EXCEPT !.story.interactedWithBook = TRUE,
                                                  !.keys = @ \ {"space"}], "bookDialog")
                 ELSE W1
            ELSE IF DistLess(m.x, m.y, b2.x, b2.y, P(2))
            THEN IF KeyDown(W, "space")
                 THEN [setCurrentDialog([W1 EXCEPT !.story.interactedWithBook = TRUE,
                                                   !.keys = @ \ {"space"}],
                                        "askForHelpDialog")
                          EXCEPT !.ent[W.me] = SetFollower(@, W.bird2),
                                 !.story.stage = "PRE-BATTLE-1"]
                 ELSE W1
            ELSE W1

\* a hangar zone that starts the battle at once
StoryPreBattle1_skipping(W) ==
    LET m == W.ent[W.me]
    IN  IF m.x >= P(-13) /\ m.y >= P(-20) /\ m.x <= P(-8) /\ m.y <= P(-13)
        THEN [setCurrentDialog([W EXCEPT !.story.stage = "BATTLE"], "hangarInfoDialog")
                 EXCEPT !.ent[W.me] = SetFollower(@, 0)]
        ELSE W

StoryPreBattle1(W) ==
    LET m == W.ent[W.me]
    IN  IF m.x >= P(-13) /\ m.y >= P(-20) /\ m.x <= P(-8) /\ m.y <= P(-13)
        THEN [setCurrentDialog([W EXCEPT !.story.stage = "PRE-BATTLE-2"],
                               "hangarInfoDialog")
                 EXCEPT !.ent[W.me] = SetFollower(@, 0)]
        ELSE W

\* only a Bird has lastX and lastY: for another me the freeze raises AttributeError
\* bird2 closes a tenth of its distance to ship2: nine tenths of the offset
\* remain, cut towards zero so that the offset reaches 0 as the float offset
\* falls below 0.002
StoryPreBattle2(W) ==
    LET s == W.ent[W.ship2]
        b == W.ent[W.bird2]
        Cut(n) == IF n < 0 THEN -((-n * 9) \div 10) ELSE (n * 9) \div 10
        bx == s.x + Cut(b.x - s.x)
        by == s.y + Cut(b.y - s.y)
        W1 == [W EXCEPT !.ent[W.bird2].x = bx, !.ent[W.bird2].y = by]
        W2 == IF bx = s.x /\ by = s.y
              THEN [W1 EXCEPT !.story.stage = "BATTLE",
                              !.ent[W.ship2].shootCooldown = 7 * TicksPerSecond]
              ELSE W1
    IN  IF W.ent[W.me].kind # "Bird" THEN Crash(W2)
        ELSE [W2 EXCEPT !.ent[W.me].x = W2.ent[W.me].lastX,
                        !.ent[W.me].y = W2.ent[W.me].lastY]

\* the steering of ship2 towards the octagon, the win trigger and the shot
StoryBattle(W, delta) ==
    LET s == W.ent[W.ship2]
        o == W.ent[W.story.octagonRef]
        W1 == [W EXCEPT !.ent[W.bird2].x = s.x + PosScale \div 2,
                        !.ent[W.bird2].y = s.y + PosScale \div 2,
                        !.ent[W.ship2].speed = s.maxSpeed \div 2]
        Won(W3) ==
            IF o.hp <= 0
            THEN [setCurrentDialog(W3, "endDialog") EXCEPT !.story.stage = "POST-BATTLE"]
            ELSE W3
    IN  shoot(IF W.story.octagonRef = 0 THEN W1
              ELSE Won(Steered(W1, W.ship2, Atan2(s.y - o.y, s.x - o.x),
                               s.rotSpeed * delta)),
              W.ship2)

\* StoryController.update
story_update(W, delta) ==
    IF W.scene_name # "game" THEN W
    ELSE
    LET st == W.story.stage
        Guard(W1) ==
            IF W1.crashed \/ W1.story.stage \in {"BATTLE", "POST-BATTLE"} THEN W1
            ELSE makeObjectsIndestructible(W1)
    IN  Guard(IF W.story.inDialog THEN StoryDialog(W)
              ELSE CASE st = "EXPLORE" -> StoryExplore(W)
                     [] st = "PRE-BATTLE-1" -> StoryPreBattle1(W)
                     [] st = "PRE-BATTLE-2" -> StoryPreBattle2(W)
                     [] st = "BATTLE" -> StoryBattle(W, delta)
                     [] OTHER -> W)

-----------------------------------------------------------------------------
(* mainloop, in three stages *)

\* a pass in insertion order, over the indices 1..n fixed at its start
RECURSIVE ForwardPass(_, _, _, _)
ForwardPass(W, j, n, delta) ==
    IF W.crashed \/ j > n THEN W
    ELSE IF j > Len(W.objs) THEN [Crash(W) EXCEPT !.hist.indexError = TRUE]
    ELSE LET id == W.objs[j]
             W1 == [W EXCEPT !.hist.updLog = Append(@,
                       [i |-> j, id |-> id, gone |-> id \in W.hist.removed,
                        lifespan |-> IF W.ent[id].kind = "LaserBeam"
                                     THEN W.ent[id].lifespan ELSE 0])]
         IN  ForwardPass(update(W1, id, delta), j + 1, n, delta)

UpdatePassForward(W, i, delta) == ForwardPass(W, 1, i, delta)

\* for i in range(len(objs) - 1, -1, -1): objs[i].update(delta), from index i
\* down (i counts from 1); an index past the end of objs raises IndexError
RECURSIVE UpdatePass(_, _, _)
UpdatePass(W, i, delta) ==
    IF W.crashed \/ i = 0 THEN W
    ELSE IF i > Len(W.objs) THEN [Crash(W) EXCEPT !.hist.indexError = TRUE]
    ELSE LET id == W.objs[i]
             W1 == [W EXCEPT !.hist.updLog = Append(@,
                       [i |-> i, id |-> id, gone |-> id \in W.hist.removed,
                        lifespan |-> IF W.ent[id].kind = "LaserBeam"
                                     THEN W.ent[id].lifespan ELSE 0])]
         IN  UpdatePass(update(W1, id, delta), i - 1, delta)

\* the update stage: player control, the update pass, camera, story
UpdateStage(W, delta, f) ==
    LET Story(W3) == IF W3.crashed THEN W3 ELSE story_update(W3, delta)
        Camera(W2) ==
            Story(IF W2.crashed THEN W2 ELSE CameraFollow(renderer_update(W2)))
        Pass(W1) ==
            Camera(IF W1.crashed THEN W1
                   ELSE UpdatePass([W1 EXCEPT !.hist.objs0 = W1.objs,
                                              !.hist.ent0 = Len(W1.ent),
                                              !.hist.since = Elapsed(@, delta)],
                                   Len(W1.objs), delta))
        Control(W0) == Pass(IF W0.me # 0 THEN player_control(W0, delta) ELSE W0)
    IN  Control([W EXCEPT !.hist.updLog = << >>, !.hist.sceneChanged = FALSE,
                          !.hist.steers = << >>, !.hist.shots = << >>,
                          !.hist.picks = << >>, !.hist.uses = {}, !.hist.gaps = {},
                          !.hist.me0 = [id |-> W.me,
                                        x |-> IF W.me = 0 THEN 0 ELSE W.ent[W.me].x,
                                        y |-> IF W.me = 0 THEN 0 ELSE W.ent[W.me].y],
                          !.hist.cam0 = [camHt |-> W.cam.camHt,
                                         camGotoHt |-> W.cam.camGotoHt],
                          !.hist.scroll0 = W.mouse.scroll,
                          !.hist.now = f, !.hist.delta = delta,
                          !.hist.hits0 = Len(W.hist.hits),
                          !.hist.expired0 = W.hist.expired])

\* objsWithHP[i].hp <= 0
DeadBelowZero(o) == o.hp < 0

Dead(o) == o.hp <= 0

\* the purge of dead objects, from index i of objsWithHP down
RECURSIVE PurgePass(_, _, _)
PurgePass(W, i, f) ==
    IF W.crashed \/ i = 0 THEN W
    ELSE IF i > Len(W.objsWithHP) THEN Crash(W)
    ELSE LET id == W.objsWithHP[i]
         IN  IF Dead(W.ent[id])
             THEN LET Logged(W3, last) ==
                          [W3 EXCEPT !.hist.destroyLog = Append(@,
                              [id |-> id, frame |-> f, hp |-> W.ent[id].hp,
                               tiles |-> IF W.ent[id].kind = "AllianceShip"
                                         THEN W.ent[id].tiles ELSE << >>,
                               first |-> Len(W.ent) + 1, last |-> last])]
                      Unlisted(W2) ==
                          IF W2.crashed THEN W2
                          ELSE [W2 EXCEPT !.objsWithHP = SeqRemove(@, id)]
                      Removed(W1) ==
                          Logged(Unlisted(IF W1.crashed THEN W1 ELSE ObjsRemove(W1, id)),
                                 Len(W1.ent))
                  IN  PurgePass(Removed(destroy(W, id)), i - 1, f)
             ELSE PurgePass(W, i - 1, f)

PurgeStage(W, f) == PurgePass(W, Len(W.objsWithHP), f)

\* a draw of the objects that were in objs when the update stage began
DrawStageStale(W, f) ==
    [W EXCEPT !.hist.drawLog = W.hist.objs0, !.hist.drawFrame = f]

\* the draw stage: obj.draw() for each obj of objs.  With the mouse away from
\* the editor's palette le.draw() places nothing.
DrawStage(W, f) ==
    [W EXCEPT !.hist.drawLog = W.objs, !.hist.drawFrame = f]

-----------------------------------------------------------------------------
(* The state machine *)

NoHistory ==
    [ removed |-> {}, again |-> {}, expired |-> {}, expired0 |-> {}, hits |-> << >>,
      hits0 |-> 0, sceneChanged |-> FALSE, staleHP |-> {}, staleWalls |-> {},
      before |-> 0, updLog |-> << >>, objs0 |-> << >>, ent0 |-> 0, now |-> 0,
      delta |-> 0, destroyLog |-> << >>, drawLog |-> << >>, drawFrame |-> 0,
      friendly |-> {}, resets |-> {}, past |-> << >>, indexError |-> FALSE,
      steers |-> << >>, shots |-> << >>, picks |-> << >>,
      cam0 |-> [camHt |-> 0, camGotoHt |-> 0], scroll0 |-> 0, uses |-> {}, since |-> {}, gaps |-> {},
      me0 |-> [id |-> 0, x |-> 0, y |-> 0] ]

\* the module-level state of main.py and renderer.py before init()
Blank ==
    [ scene_name |-> "none", objs |-> << >>, objsWithHP |-> << >>, walls |-> << >>,
      ent |-> << >>, me |-> 0, bird2 |-> 0, ship2 |-> 0, bookOfAnswers |-> 0,
      keys |-> {}, mouse |-> [x |-> 0, y |-> 0, left |-> FALSE, scroll |-> 0],
      story |-> [storyStep |-> 0, inDialog |-> TRUE, currentDialog |-> "startDialog",
                 stage |-> "EXPLORE", interactedWithBook |-> FALSE, octagonRef |-> 0],
      cam |-> [camX |-> 0, camY |-> 0, camHt |-> CamScale,
               camGotoHt |-> (15 * CamScale) \div 1000,
               cullX1 |-> 0, cullY1 |-> 0, cullX2 |-> 0, cullY2 |-> 0],
      crashed |-> FALSE, quit |-> FALSE, hist |-> NoHistory, tape |-> <<0>>, ti |-> 0 ]

\* the variables hold the world W
Holds(W) ==
    /\ scene_name = W.scene_name
    /\ objs = W.objs
    /\ objsWithHP = W.objsWithHP
    /\ walls = W.walls
    /\ ent = W.ent
    /\ me = W.me
    /\ bird2 = W.bird2
    /\ ship2 = W.ship2
    /\ bookOfAnswers = W.bookOfAnswers
    /\ keys = W.keys
    /\ mouse = W.mouse
    /\ story = W.story
    /\ cam = W.cam
    /\ crashed = W.crashed
    /\ quit = W.quit
    /\ hist = W.hist

\* init(): the menu scene
Init ==
    /\ Holds(change_scene(Blank, "menu"))
    /\ pc = "idle"
    /\ frame = 0
    /\ nEvents = 0

Running == ~crashed /\ ~quit

\* the keys and the mouse positions that the input events deliver
KeySet == {"Return", "w"}

MousePoints == { <<300, 280>>, <<300, 380>>, <<300, 420>> }

Update ==
    /\ pc = "idle"
    /\ Running
    /\ frame < MaxFrames
    /\ \E delta \in Dts, tape \in Tapes :
           Becomes(UpdateStage(World(tape), delta, frame + 1))
    /\ pc' = "updated"
    /\ frame' = frame + 1
    /\ UNCHANGED nEvents

Purge ==
    /\ pc = "updated"
    /\ ~crashed
    /\ \E tape \in Tapes : Becomes(PurgeStage(World(tape), frame))
    /\ pc' = "purged"
    /\ UNCHANGED << frame, nEvents >>

Draw ==
    /\ pc = "purged"
    /\ ~crashed
    /\ Becomes(DrawStage(World(<<0>>), frame))
    /\ pc' = "idle"
    /\ UNCHANGED << frame, nEvents >>

Event ==
    /\ pc = "idle"
    /\ Running
    /\ nEvents < MaxEvents
    /\ nEvents' = nEvents + 1
    /\ UNCHANGED << scene_name, objs, objsWithHP, walls, ent, me, bird2, ship2,
                    bookOfAnswers, story, cam, crashed, quit, pc, frame, hist >>

KeyPress ==
    /\ Event
    /\ \E k \in KeySet \ keys : keys' = keys \cup {k}
    /\ UNCHANGED mouse

KeyRelease ==
    /\ Event
    /\ \E k \in keys : keys' = keys \ {k}
    /\ UNCHANGED mouse

ButtonPress ==
    /\ Event
    /\ ~mouse.left
    /\ mouse' = [mouse EXCEPT !.left = TRUE]
    /\ UNCHANGED keys

ButtonRelease ==
    /\ Event
    /\ mouse.left
    /\ mouse' = [mouse EXCEPT !.left = FALSE]
    /\ UNCHANGED keys

Motion ==
    /\ Event
    /\ \E p \in MousePoints :
           /\ << mouse.x, mouse.y >> # p
           /\ mouse' = [mouse EXCEPT !.x = p[1], !.y = p[2]]
    /\ UNCHANGED keys

\* e.delta of a <MouseWheel> event: one notch away from the user, one towards
WheelDeltas == {120, -120}

MouseWheel ==
    /\ Event
    /\ \E d \in WheelDeltas :
           /\ mouse.scroll # d
           /\ mouse' = [mouse EXCEPT !.scroll = d]
    /\ UNCHANGED keys

Next ==
    \/ Update
    \/ Purge
    \/ Draw
    \/ KeyPress
    \/ KeyRelease
    \/ ButtonPress
    \/ ButtonRelease
    \/ Motion
    \/ MouseWheel

Spec == Init /\ [][Next]_vars

-----------------------------------------------------------------------------
(* The game scene in mid-battle.  The world is the one that the Start Game
   option builds; the story has left its opening dialog and is at the given
   stage; the player's Bird sits in the second AllianceShip, which has flown
   up to the enemy mother ship; one SmallEnemyShip, spawned by the enemy
   mother ship, has flown up to ship2 and is about to shoot; the alliance's
   TurretStation has picked it as its target.  With worn set,
   ship2, the SmallEnemyShip and (in the BATTLE stage) the enemy mother ship
   have taken all but one of the hits they can take. *)

BattleStages == {"EXPLORE", "BATTLE"}

\* all but one of the hits that entity id can take have been taken
Worn(W, id) ==
    [W EXCEPT !.ent[id].hp = HpScale,
              !.hist.past = @ \o << <<id, (W.ent[id].maxHP \div HpScale) - 1>> >>]

\* the game scene as the Start Game option of the menu builds it
Started ==
    [change_scene(change_scene(Blank, "menu"), "game") EXCEPT !.hist.sceneChanged = FALSE]

\* the story past its opening dialog, the ships in their places; W1 is G with
\* the SmallEnemyShip, its last entity
Arrayed(G, W1, stage, mother, ship, station) ==
    LET s2 == G.ship2
        e == Len(W1.ent)
    IN  [W1 EXCEPT
           !.story = [storyStep |-> DialogLen("startDialog"), inDialog |-> FALSE,
                      currentDialog |-> "startDialog", stage |-> stage,
                      interactedWithBook |-> stage = "BATTLE",
                      octagonRef |-> mother],
           !.me = ship,
           !.ent[ship].cockpit = G.me,
           !.ent[ship].x = G.ent[mother].x + P(26),
           !.ent[ship].y = G.ent[mother].y,
           !.ent[ship].shootCooldown = -1,
           !.ent[G.me].x = G.ent[mother].x + P(26) + PosScale \div 4,
           !.ent[G.me].y = G.ent[mother].y + PosScale \div 2,
           !.ent[e].x = G.ent[s2].x - P(7),
           !.ent[e].y = G.ent[s2].y,
           !.ent[e].theta = 0,
           !.ent[e].shootCooldown = 0,
           !.ent[e].target = s2,
           !.ent[station].target = e,
           !.cam.camHt = (15 * CamScale) \div 1000,
           !.cam.camX = G.ent[mother].x + P(26),
           !.cam.camY = G.ent[mother].y,
           !.ti = 0]

\* what the BATTLE stage of the story has set at each frame
AtStage(G, W2, stage) ==
    LET s2 == G.ship2
    IN  IF stage = "BATTLE"
        THEN [W2 EXCEPT !.ent[G.bird2].x = G.ent[s2].x + PosScale \div 2,
                        !.ent[G.bird2].y = G.ent[s2].y + PosScale \div 2,
                        !.ent[s2].speed = G.ent[s2].maxSpeed \div 2,
                        !.ent[s2].shootCooldown = 0]
        ELSE W2

\* ship2, the SmallEnemyShip (the last entity) and, in the BATTLE stage, the
\* enemy mother ship, worn
WornOut(W3, stage, mother) ==
    LET W4 == Worn(Worn(W3, W3.ship2), Len(W3.ent))
    IN  IF stage = "BATTLE" THEN Worn(W4, mother) ELSE W4

BattleOf(G, stage, worn) ==
    LET mother == Candidates(G, "EnemyMotherShip")[1]
        ship == Candidates(G, "AllianceShip")[2]
        station == CHOOSE i \in Range(G.objs) :
                       G.ent[i].kind = "TurretStation" /\ G.ent[i].team = TEAM_ALLIANCE
        W3 == AtStage(G, Arrayed(G, SmallEnemyShip(G, G.ent[mother].x, G.ent[mother].y),
                                 stage, mother, ship, station), stage)
    IN  IF worn THEN WornOut(W3, stage, mother) ELSE W3

Battle(stage, worn) == BattleOf(Started, stage, worn)

InitBattle ==
    /\ \E stage \in BattleStages, worn \in BOOLEAN : Holds(Battle(stage, worn))
    /\ pc = "idle"
    /\ frame = 0
    /\ nEvents = 0

SpecBattle == InitBattle /\ [][Next]_vars

(* The game scene at the first re-targeting of the TurretStations: no
   SmallEnemyShip has been spawned yet. *)

\* one frame of mainloop with no input
Frame(W, delta) == DrawStage(PurgeStage(UpdateStage(W, delta, 0), 0), 0)

\* the first TurretStation of the Alliance
Station(W) ==
    CHOOSE i \in Range(W.objs) :
        /\ W.ent[i].kind = "TurretStation" /\ W.ent[i].team = TEAM_ALLIANCE
        /\ \A j \in Range(W.objs) :
               W.ent[j].kind = "TurretStation" /\ W.ent[j].team = TEAM_ALLIANCE => i <= j

\* the world after the frames of DtShort that bring the TurretStations to
\* their first re-targeting: the next frame is the one that re-targets
RECURSIVE Due(_)
Due(W) ==
    IF W.crashed \/ W.ent[Station(W)].targetCooldown - DtShort < 0 THEN W
    ELSE Due(Frame(W, DtShort))

InitRetarget ==
    /\ Holds([Due(Started) EXCEPT !.hist = NoHistory])
    /\ pc = "idle"
    /\ frame = 0
    /\ nEvents = 0

SpecRetarget == InitRetarget /\ [][Next]_vars

(* The game scene of a level that ends with one more Turret and one more
   TurretStation, in either order, the station where the Bird starts. *)

Orders == { <<"Turret", "TurretStation">>, <<"TurretStation", "Turret">> }

\* a line of level code: the constructor of class k
Construct(W, k) ==
    IF k = "Turret" THEN Turret(W, P(-22), P(20), TEAM_ALLIANCE)
    ELSE TurretStation(W, P(-14), P(20), TEAM_ALLIANCE)

Level(order) == Construct(Construct(Started, order[1]), order[2])

\* the last entity of kind k
Last(k) ==
    CHOOSE i \in DOMAIN ent :
        ent[i].kind = k /\ \A j \in DOMAIN ent : ent[j].kind = k => j <= i

\* after one frame the Bird knows its nearest ship
InitStation ==
    /\ \E order \in Orders :
           Holds([Frame(Level(order), DtShort) EXCEPT !.hist = NoHistory])
    /\ pc = "idle"
    /\ frame = 0
    /\ nEvents = 0

SpecStation == InitStation /\ [][Next]_vars

(* The battle with the camera target at a limit: the lowest target, and the
   highest of an AllianceShip, where repeated scrolling leaves it. *)

ZoomLimits == { (5 * CamScale) \div 1000, CamScale }

InitZoom ==
    /\ \E g \in ZoomLimits :
           Holds([Battle("EXPLORE", FALSE) EXCEPT !.cam.camGotoHt = g, !.cam.camHt = g])
    /\ pc = "idle"
    /\ frame = 0
    /\ nEvents = 0

SpecZoom == InitZoom /\ [][Next]_vars

(* The battle with the player's ship turned: the steering key d has been held
   for some frames and still is. *)

\* headings the ship has been steered to
Headings == { Pi \div 2, -40 }

\* the controlled ship at heading h, as player_control leaves it
Steered_to(W, h) == [W EXCEPT !.ent[W.me].theta = h, !.keys = @ \cup {"d"}]

InitSteer ==
    /\ \E h \in Headings :
           Holds([Frame(Steered_to(Battle("EXPLORE", FALSE), h - DtShort * 6), DtShort)
                     EXCEPT !.hist = NoHistory])
    /\ pc = "idle"
    /\ frame = 0
    /\ nEvents = 0

SpecSteer == InitSteer /\ [][Next]_vars

(* The battle with the player at the guns: the Bird has left its ship and sits
   in the last TurretStation of the Alliance. *)

Seat(W) ==
    CHOOSE i \in Range(W.objs) :
        /\ W.ent[i].kind = "TurretStation" /\ W.ent[i].team = TEAM_ALLIANCE
        /\ \A j \in Range(W.objs) :
               W.ent[j].kind = "TurretStation" /\ W.ent[j].team = TEAM_ALLIANCE => j <= i

\* the Bird of ship W.me in the seat of TurretStation st
Seated(W, st) ==
    LET b == W.ent[W.me].cockpit
    IN  [W EXCEPT !.me = st,
                  !.ent[W.me].cockpit = 0,
                  !.ent[st].cockpit = b,
                  !.ent[b].x = W.ent[st].x,
                  !.ent[b].y = W.ent[st].y,
                  !.cam.camX = W.ent[st].targetX,
                  !.cam.camY = W.ent[st].targetY]

InitGunner ==
    /\ Holds(Seated(Battle("BATTLE", FALSE), Seat(Battle("BATTLE", FALSE))))
    /\ pc = "idle"
    /\ frame = 0
    /\ nEvents = 0

SpecGunner == InitGunner /\ [][Next]_vars

(* The battle with the player on foot: the Bird has not boarded, both
   AllianceShips stand in the hangar where the level puts them, and the Bird
   stands one unit from ship2, which its last update found as its nearest ship. *)

\* the Bird of ship W.me out of that ship, next to ship2
Ashore(W) ==
    LET ship == W.me
        b == W.ent[ship].cockpit
        s2 == W.ent[W.ship2]
    IN  [W EXCEPT !.me = b,
                  !.ent[ship].cockpit = 0,
                  !.ent[ship].x = Started.ent[ship].x,
                  !.ent[ship].y = Started.ent[ship].y,
                  !.ent[b].x = s2.x + P(1),
                  !.ent[b].y = s2.y,
                  !.ent[b].lastX = s2.x + P(1),
                  !.ent[b].lastY = s2.y,
                  !.ent[b].nearestShip = W.ship2,
                  !.cam.camX = s2.x + P(1),
                  !.cam.camY = s2.y]

InitAshore ==
    /\ \E worn \in BOOLEAN : Holds(Ashore(Battle("EXPLORE", worn)))
    /\ pc = "idle"
    /\ frame = 0
    /\ nEvents = 0

SpecAshore == InitAshore /\ [][Next]_vars


\* the moves of pc that the three stages of a frame make: only Update, Purge
\* and Draw change pc, each whenever its guard holds
Moves(from, to) == pc = from /\ pc' = to

UpdateMoves == Running /\ frame < MaxFrames /\ Moves("idle", "updated")

PurgeMoves == ~crashed /\ Moves("updated", "purged")

DrawMoves == ~crashed /\ Moves("purged", "idle")

\* SpecBattle with the frames scheduled: Tk's after() calls mainloop again as
\* long as the program runs, and each call goes through its three stages
SpecRespawn ==
    /\ InitBattle /\ [][Next]_vars
    /\ WF_pc(UpdateMoves) /\ WF_pc(PurgeMoves) /\ WF_pc(DrawMoves)

(* The story at its turning points.  The world is the one that the Start Game
   option builds, with the story and the two Birds where the walk through the
   story has brought them: about to ask Albert for help (space held next to
   bird2), about to step into the hangar zone with bird2 following, on the last
   page of the hangar dialog with the player's Bird next to ship2, with bird2
   one step from ship2's seat, and in the battle with a worn enemy mother ship. *)

StoryPoints == {"ask", "walk", "hangar", "jump", "battle"}

\* the story of W at the given stage and dialog page
Told(W, stage, dialog, step, open) ==
    [W EXCEPT !.story = [storyStep |-> step, inDialog |-> open, currentDialog |-> dialog,
                         stage |-> stage, interactedWithBook |-> TRUE,
                         octagonRef |-> Candidates(W, "EnemyMotherShip")[1]]]

\* Bird b of W standing at (x, y), the camera on it if it is the controlled one
Standing(W, b, x, y) ==
    LET W1 == [W EXCEPT !.ent[b].x = x, !.ent[b].y = y,
                        !.ent[b].lastX = x, !.ent[b].lastY = y]
    IN  IF b = W.me THEN [W1 EXCEPT !.cam.camX = x, !.cam.camY = y] ELSE W1

AtPoint(p) ==
    LET G == Started
        s2 == G.ent[G.ship2]
    IN  CASE p = "ask" ->
               [Standing(Told(G, "EXPLORE", "startDialog", DialogLen("startDialog"), FALSE),
                         G.me, G.ent[G.bird2].x - P(1), G.ent[G.bird2].y)
                   EXCEPT !.keys = {"space"}]
          [] p = "walk" ->
               [Standing(Standing(Told(G, "PRE-BATTLE-1", "askForHelpDialog",
                                       DialogLen("askForHelpDialog"), FALSE),
                                  G.me, P(-10), P(-13) + 3),
                         G.bird2, P(-10), P(-12) + 3)
                   EXCEPT !.ent[G.me].follower = G.bird2]
          [] p = "hangar" ->
               [Standing(Standing(Told(G, "PRE-BATTLE-2", "hangarInfoDialog",
                                       DialogLen("hangarInfoDialog") - 1, TRUE),
                                  G.me, s2.x + P(1), s2.y),
                         G.bird2, P(-10), P(-12))
                   EXCEPT !.ent[G.me].nearestShip = G.ship2]
          [] p = "jump" ->
               Standing(Standing(Told(G, "PRE-BATTLE-2", "hangarInfoDialog",
                                      DialogLen("hangarInfoDialog"), FALSE),
                                 G.me, P(-10), P(-15)),
                        G.bird2, s2.x + 1, s2.y)
          [] OTHER -> Battle("BATTLE", TRUE)

InitStory ==
    /\ \E p \in StoryPoints : Holds(AtPoint(p))
    /\ pc = "idle"
    /\ frame = 0
    /\ nEvents = 0

SpecStory ==
    /\ InitStory /\ [][Next]_vars
    /\ WF_pc(UpdateMoves) /\ WF_pc(PurgeMoves) /\ WF_pc(DrawMoves)

-----------------------------------------------------------------------------
(* Properties *)

Kind(id) == ent[id].kind

InObjs(id) == id \in Range(objs)

Lasts(log) == {k \in 1..Len(log) : log[k].frame = frame}

\* the hits that entity id took before the initial state
PastHits(id) ==
    LET S == {k \in 1..Len(hist.past) : hist.past[k][1] = id}
    IN  IF S = {} THEN 0 ELSE hist.past[CHOOSE k \in S : TRUE][2]

\* the hits that entity id took, as logged
HitsOn(id) == Cardinality({k \in 1..Len(hist.hits) : hist.hits[k].victim = id})

\* C1: no update of a LaserBeam reduces the hp of an entity of the beam's own
\* team: every entity whose hp an update of a beam changed is of the other team.
C1_NoFriendlyDamage ==
    \A k \in 1..Len(hist.hits) :
        \A c \in hist.hits[k].changed : ent[c[1]].team # ent[hist.hits[k].beam].team

\* a beam was updated with its head inside an entity of its own team, and
\* went on
C1_Witness ==
    \E p \in hist.friendly : InObjs(p[1]) /\ ent[p[1]].team = ent[p[2]].team

\* C2: a LaserBeam hits at most once in its lifetime; the hit takes exactly 1 hp
\* from exactly one entity; in the same update the beam leaves objs and
\* exactly one Explosion is registered, at the position of the beam's head.
C2_OneHitPerBeam ==
    \A k \in 1..Len(hist.hits) :
        LET h == hist.hits[k]
        IN  /\ Kind(h.beam) = "LaserBeam"
            /\ h.changed = {<<h.victim, -HpScale>>}
            /\ ~h.inObjs
            /\ Cardinality(h.made) = 1
            /\ \A j \in h.made :
                   /\ Kind(j) = "Explosion"
                   /\ ent[j].x = h.x /\ ent[j].y = h.y
                   /\ ent[h.beam].x = h.x /\ ent[h.beam].y = h.y
            /\ \A j \in 1..Len(hist.hits) : j # k => hist.hits[j].beam # h.beam

\* two beams have hit, one of them a shield
C2_Witness ==
    /\ Len(hist.hits) >= 2
    /\ \E k \in 1..Len(hist.hits) : Kind(hist.hits[k].victim) = "Shields"

\* C3: destroy() is called at the first purge at which the entity's hp <= 0 (no
\* entity with hp <= 0 is left in objsWithHP by a purge), once for each
\* entity, never at hp > 0, and right after the purge the entity is in
\* neither objs nor objsWithHP.
C3_DestroyOnce ==
    /\ \A k \in 1..Len(hist.destroyLog) :
           LET d == hist.destroyLog[k]
           IN  /\ d.hp <= 0
               /\ \A j \in 1..Len(hist.destroyLog) : j # k => hist.destroyLog[j].id # d.id
               /\ (pc = "purged" /\ d.frame = frame) =>
                      d.id \notin Range(objs) /\ d.id \notin Range(objsWithHP)
    /\ pc = "purged" => \A id \in Range(objsWithHP) : ent[id].hp > 0

\* a purge has just destroyed an AllianceShip and a SmallEnemyShip
C3_Witness ==
    /\ pc = "purged"
    /\ \E k \in Lasts(hist.destroyLog) : Kind(hist.destroyLog[k].id) = "AllianceShip"
    /\ \E k \in Lasts(hist.destroyLog) : Kind(hist.destroyLog[k].id) = "SmallEnemyShip"

\* C4: each update of a LaserBeam takes exactly delta from its lifespan; the
\* update that brings the lifespan below 0 removes the beam from objs and
\* damages nothing; a beam is never updated after it left objs, and never
\* removed twice.
C4_LifespanExpiry ==
    /\ hist.again = {}
    /\ \A id \in 1..Len(ent) :
           Kind(id) = "LaserBeam" =>
               /\ ent[id].lifespan < 0 <=> id \in hist.expired
               /\ ent[id].lifespan < 0 => ~InObjs(id)
    /\ pc = "updated" =>
           \A k \in 1..Len(hist.updLog) :
               LET u == hist.updLog[k]
               IN  Kind(u.id) = "LaserBeam" =>
                       /\ ~u.gone
                       /\ u.lifespan >= 0
                       /\ ent[u.id].lifespan = u.lifespan - hist.delta
                       /\ u.id \in hist.expired =>
                              \A j \in (hist.hits0 + 1)..Len(hist.hits) :
                                  hist.hits[j].beam # u.id

\* an update pass has just removed a beam whose lifespan ran out
C4_Witness ==
    /\ pc = "updated"
    /\ \E k \in 1..Len(hist.updLog) :
           /\ Kind(hist.updLog[k].id) = "LaserBeam"
           /\ hist.updLog[k].id \in hist.expired \ hist.expired0
           /\ ent[hist.updLog[k].id].lifespan < 0

\* C5: in an update pass without a scene change the entities that were in objs
\* at the start of the pass are updated once each, in reverse insertion
\* order, index by index, none after it left objs, and no index is out of
\* range; the entities registered during the pass are not updated in it.
C5_ReversePass ==
    (pc = "updated" /\ ~hist.sceneChanged) =>
        /\ ~hist.indexError
        /\ Len(hist.updLog) = Len(hist.objs0)
        /\ \A k \in 1..Len(hist.updLog) :
               /\ hist.updLog[k].i = Len(hist.objs0) - k + 1
               /\ hist.updLog[k].id = hist.objs0[Len(hist.objs0) - k + 1]
               /\ hist.updLog[k].id <= hist.ent0
               /\ ~hist.updLog[k].gone
        /\ \A j, k \in 1..Len(hist.objs0) : j # k => hist.objs0[j] # hist.objs0[k]

\* a pass in which an entity removed itself and new entities were registered
C5_Witness ==
    /\ pc = "updated"
    /\ ~hist.sceneChanged
    /\ \E k \in 1..Len(hist.updLog) : ~InObjs(hist.updLog[k].id)
    /\ \E id \in Range(objs) : id > hist.ent0

\* C6: in each frame the update stage comes before the purge and the purge
\* before the draw; no purged entity is drawn, in the frame of its purge or
\* later, and the Explosions that a destroy() of the frame registered are drawn
\* in that frame.
C6_PurgeBeforeDraw ==
    /\ pc = "updated" =>
           /\ hist.now = frame
           /\ hist.drawFrame < frame
           /\ Lasts(hist.destroyLog) = {}
    /\ pc = "purged" => hist.now = frame /\ hist.drawFrame < frame
    /\ (pc = "idle" /\ frame > 0) =>
           /\ hist.drawFrame = frame
           /\ hist.now = frame
           /\ \A k \in Lasts(hist.destroyLog) :
                  \A j \in hist.destroyLog[k].first..hist.destroyLog[k].last :
                      Kind(j) = "Explosion" => j \in Range(hist.drawLog)
    /\ \A k \in 1..Len(hist.destroyLog) :
           hist.drawFrame >= hist.destroyLog[k].frame =>
               hist.destroyLog[k].id \notin Range(hist.drawLog)

\* a frame has drawn the Explosions of a ship purged in it
C6_Witness ==
    /\ pc = "idle"
    /\ \E k \in Lasts(hist.destroyLog) :
           /\ hist.destroyLog[k].last >= hist.destroyLog[k].first
           /\ hist.destroyLog[k].last \in Range(hist.drawLog)

\* C7: after a change to another scene, objs, objsWithHP and walls hold only
\* entities constructed for the new scene, and every entry of objsWithHP and
\* walls is in objs.
C7_SceneChangeClears ==
    /\ \A id \in Range(objs) \cup Range(objsWithHP) \cup Range(walls) : id > hist.before
    /\ Range(objsWithHP) \subseteq Range(objs)
    /\ Range(walls) \subseteq Range(objs)

\* the menu has changed to the game scene, which has filled the three lists
C7_Witness ==
    /\ scene_name = "game"
    /\ hist.before > 0
    /\ objsWithHP # << >>
    /\ walls # << >>

\* C8: every AllianceShip, SmallEnemyShip and EnemyMotherShip has hp <= maxHP.
C8_HpAtMostMax ==
    \A id \in 1..Len(ent) :
        Kind(id) \in {"AllianceShip", "SmallEnemyShip", "EnemyMotherShip"} =>
            ent[id].hp <= ent[id].maxHP

\* the story has reset the hp of the enemy mother ship after a hit, and a ship
\* is below its maxHP
C8_Witness ==
    /\ \E id \in hist.resets : Kind(id) = "EnemyMotherShip" /\ ent[id].hp = ent[id].maxHP
    /\ \E id \in Range(objsWithHP) : Kind(id) = "AllianceShip" /\ ent[id].hp < ent[id].maxHP

\* C9: an AllianceShip or SmallEnemyShip in objsWithHP that has taken n hits
\* has hp = maxHP - n (hp counted in HpScale-ths).
C9_HpCountsHits ==
    \A id \in Range(objsWithHP) :
        Kind(id) \in {"AllianceShip", "SmallEnemyShip"} =>
            ent[id].hp = ent[id].maxHP - HpScale * (PastHits(id) + HitsOn(id))

\* a ship that started at its maxHP has taken two hits
C9_Witness ==
    \E id \in Range(objsWithHP) :
        Kind(id) = "AllianceShip" /\ PastHits(id) = 0 /\ HitsOn(id) = 2

\* C10: the purge of an AllianceShip takes its tiles out of objs, registers one
\* Explosion for each tile, at the tile's position, and empties the ship's
\* tile list; after a purge every Tile of objs has its parent in objs.
C10_TilesGoWithShip ==
    /\ \A k \in 1..Len(hist.destroyLog) :
           LET d == hist.destroyLog[k]
           IN  Kind(d.id) = "AllianceShip" =>
                   /\ ent[d.id].tiles = << >>
                   /\ d.last - d.first + 1 = Len(d.tiles)
                   /\ \A t \in 1..Len(d.tiles) :
                          /\ ~InObjs(d.tiles[t])
                          /\ Kind(d.first + t - 1) = "Explosion"
                          /\ ent[d.first + t - 1].x = ent[d.tiles[t]].ax
                          /\ ent[d.first + t - 1].y = ent[d.tiles[t]].ay
    /\ pc \in {"purged", "idle"} =>
           \A id \in Range(objs) : Kind(id) = "Tile" => InObjs(ent[id].parent)

\* a purge has just destroyed a ship that had its eight tiles
C10_Witness ==
    /\ pc = "purged"
    /\ \E k \in Lasts(hist.destroyLog) :
           /\ Kind(hist.destroyLog[k].id) = "AllianceShip"
           /\ Len(hist.destroyLog[k].tiles) = 8
           /\ \E id \in Range(objs) : Kind(id) = "Tile"

(* Steering *)

\* the steering steps of the update pass in progress or just finished
Steps == {hist.steers[i] : i \in 1..Len(hist.steers)}

\* the angle between the headings a and b, at most half a turn
AngDist(a, b) == Min((a - b) % TwoPi, TwoPi - ((a - b) % TwoPi))

\* C11: a steering step with turnRate*dt < pi never leaves the heading farther
\* from the angle steered to than it was, the difference taken as the code
\* computes it or as an angle of at most half a turn
C11_NeverOvershoots ==
    \A s \in Steps :
        s.rot < Pi =>
            \/ Abs(s.new - s.goal) <= Abs(s.old - s.goal)
            \/ AngDist(s.new, s.goal) <= AngDist(s.old, s.goal)

\* the difference between the angle steered to and the heading is outside
\* [-pi, pi]
Wrapped(s) == Abs(s.goal - s.old) > Pi

\* C12: a steering step whose raw difference is outside (-pi, pi] turns the
\* heading along the shorter arc: the angle left to the bearing shrinks, and
\* is within one turn step once it was within one
C12_ShorterArc ==
    \A s \in Steps :
        Wrapped(s) =>
            IF AngDist(s.old, s.goal) > s.rot
            THEN AngDist(s.new, s.goal) < AngDist(s.old, s.goal)
            ELSE AngDist(s.new, s.goal) <= s.rot

\* C13: a steering step whose difference is within [-pi, pi] sets the heading
\* to the angle steered to when the difference is at most turnRate*dt, and
\* else turns it by exactly turnRate*dt towards that angle
C13_SnapOrStep ==
    \A s \in Steps :
        ~Wrapped(s) =>
            IF Abs(s.goal - s.old) <= s.rot
            THEN s.new = s.goal
            ELSE s.new = (IF s.goal > s.old THEN s.old + s.rot ELSE s.old - s.rot)

(* Firing and targeting of the AI *)

\* the projectiles registered by update() of a SmallEnemyShip or of an
\* AI-controlled TurretStation in the update pass in progress or just finished
Shots == {hist.shots[i] : i \in 1..Len(hist.shots)}

\* C14: an autonomous entity registers a projectile only with a target and
\* with its firing cooldown elapsed
C14_FiresOnlyAtTarget ==
    \A s \in Shots :
        /\ ent[s.beam].kind = "LaserBeam" /\ ent[s.beam].originObj = s.id
        /\ s.cooldown < 0
        /\ s.target # 0

\* the re-rolls of a target among candidates in the update pass in progress or
\* just finished
Picks == {hist.picks[i] : i \in 1..Len(hist.picks)}

\* entity i is steered or aimed by the AI and has no target
Idle(e) ==
    /\ \/ e.kind = "SmallEnemyShip"
       \/ e.kind = "TurretStation" /\ e.cockpit = 0
    /\ e.target = 0

\* the heading of a SmallEnemyShip, the aim of a TurretStation
Bearing(e) == IF e.kind = "TurretStation" THEN e.theta2 ELSE e.theta

\* C15: a re-roll with no candidate leaves the AI without target and raises no
\* error, and the heading or aim of an AI stays as it is from state to state
\* while its target is absent
C15_EmptyPoolNoTarget ==
    /\ [](\A p \in Picks : p.pool = << >> => p.target = 0 /\ ~crashed)
    /\ [][\A i \in DOMAIN ent :
              (i \in DOMAIN ent' /\ Idle(ent[i]) /\ Idle(ent'[i]))
                  => Bearing(ent'[i]) = Bearing(ent[i])]_vars

\* a TurretStation with a Turret found no candidate at a re-roll of an earlier
\* frame and has been updated since, its target still absent
C15_Witness ==
    /\ pc = "updated" /\ ~crashed /\ hist.picks = << >>
    /\ \E i \in Range(objs) :
           /\ Kind(i) = "TurretStation" /\ ent[i].controls # 0 /\ Idle(ent[i])
           /\ ent[i].targetCooldown = ent[i].targetReset - hist.delta

\* C16: at every re-roll among candidates, the candidates are exactly the
\* entities of the damageable index whose team is not the team of the AI
C16_PoolIsOtherTeam ==
    \A p \in Picks :
        Range(p.pool) = {j \in Range(p.index) : ent[j].team # ent[p.id].team}

(* TurretStations *)

\* C17: the Turret and the TurretStation that the level constructs last, in
\* either order, are linked to each other once both exist
C17_MutuallyLinked ==
    /\ ent[Last("TurretStation")].controls = Last("Turret")
    /\ ent[Last("Turret")].station = Last("TurretStation")

\* C18: a TurretStation without Turret keeps the aim it was constructed with,
\* is the origin of no projectile, and raises no error under the player
C18_UnpairedInert ==
    \A i \in Range(objs) :
        (Kind(i) = "TurretStation" /\ ent[i].controls = 0) =>
            /\ ent[i].theta2 = 0
            /\ \A j \in DOMAIN ent :
                   ent[j].kind = "LaserBeam" => ent[j].originObj # i
            /\ ~(crashed /\ me = i)

\* C19: a vehicle whose cockpit holds the player's Bird is the controlled
\* entity: once the Bird is the controlled entity again, no AllianceShip and no
\* TurretStation has it in its cockpit
C19_ExitClearsCockpit ==
    \A i \in DOMAIN ent :
        (ent[i].kind \in {"AllianceShip", "TurretStation"} /\ me # 0 /\ Kind(me) = "Bird")
            => ent[i].cockpit # me

(* The camera *)

\* the update stage of the last frame ran Renderer.update
Zoomed == frame > 0 /\ ~crashed

\* a scroll away from the user was pending when the last update stage began,
\* and camHt was at its target
ScrolledOutAtRest ==
    Zoomed /\ hist.scroll0 < 0 /\ hist.cam0.camHt = hist.cam0.camGotoHt

\* the target after a scroll away from the user, before the limits
ZoomedOut == (hist.cam0.camGotoHt * 12) \div 10

\* C20 as stated: after the frame that consumes a scroll-out at rest, camHt is
\* halfway between its old value and the new target
C20_HalfwayToNewTarget ==
    ScrolledOutAtRest =>
        \/ cam.camHt = hist.cam0.camHt + (ZoomedOut - hist.cam0.camHt) \div 2
        \/ cam.camHt = hist.cam0.camHt + (cam.camGotoHt - hist.cam0.camHt) \div 2

\* C20, amended: every Renderer.update moves camHt halfway to the target it
\* finds and only then consumes the scroll; the frame that consumes a
\* scroll-out at rest leaves camHt as it was and sets the target to 1.2 times
\* the old one, within the limits
C20_HalfwayToOldTarget ==
    Zoomed =>
        /\ cam.camHt = hist.cam0.camHt + (hist.cam0.camGotoHt - hist.cam0.camHt) \div 2
        /\ mouse.scroll = 0 \/ pc = "idle"
        /\ ScrolledOutAtRest =>
               /\ cam.camHt = hist.cam0.camHt
               /\ cam.camGotoHt =
                      Max((5 * CamScale) \div 1000,
                          IF me # 0 THEN Min(ZoomedOut, ent[me].maxCamHt) ELSE ZoomedOut)

\* a scroll-out at rest has been consumed and has raised the target
C20_Witness ==
    ScrolledOutAtRest /\ pc = "updated" /\ cam.camGotoHt = ZoomedOut /\ ZoomedOut > cam.camHt

\* C21: after every Renderer.update with a controlled entity the camera target
\* is at least 0.005 and at most the maxCamHt of the controlled entity
C21_TargetWithinLimits ==
    (Zoomed /\ me # 0) =>
        /\ (5 * CamScale) \div 1000 <= cam.camGotoHt
        /\ cam.camGotoHt <= ent[me].maxCamHt

\* the player has left the ship with the target above the limit of the Bird,
\* and the update has brought it down to that limit
C21_Witness ==
    /\ Zoomed /\ pc = "updated" /\ me # 0 /\ Kind(me) = "Bird"
    /\ hist.cam0.camGotoHt > ent[me].maxCamHt
    /\ cam.camGotoHt = ent[me].maxCamHt

\* sample world coordinates (length units) and screen pixels
WorldPoints == { P(-14), -1, 0, 7, P(20) + 3 }

ScreenPoints == { 0, 1, 299, 600 }

Camera == [cam |-> cam]

(* C22: with the camera held constant, the screen-to-world mappings invert
   the world-to-screen mappings and vice versa: RevX(X(x)) = x and
   RevY(Y(y)) = y for world points, X(RevX(sx)) = sx and Y(RevY(sy)) = sy
   for screen points (in exact arithmetic). *)
C22_RoundTrip ==
    (cam.camHt # 0) =>
        /\ \A x \in WorldPoints :
               /\ RevXq(Camera, X(Camera, Frac(x, 1))) = Frac(x, 1)
               /\ RevYq(Camera, Y(Camera, Frac(x, 1))) = Frac(x, 1)
        /\ \A s \in ScreenPoints :
               /\ X(Camera, RevXq(Camera, Frac(s, 1))) = Frac(s, 1)
               /\ Y(Camera, RevYq(Camera, Frac(s, 1))) = Frac(s, 1)

\* the camera is off the origin and zoomed, and the mapping is no identity
C22_Witness ==
    /\ cam.camX # 0 /\ cam.camY # 0
    /\ cam.camHt \notin {0, CamScale}
    /\ cam.camHt * PosScale # CamScale
    /\ X(Camera, Frac(7, 1)).d # 1
    /\ RevXq(Camera, Frac(1, 1)) # Frac(1, 1)

Tiles == { t \in Range(objs) : Kind(t) = "Tile" /\ ent[t].parent # 0 }

\* points of a tile, relative to its corner
LocalPoints == { <<0, 0>>, <<P(1), PosScale \div 2>>, <<-3, 7>> }

\* the entities as Tile.transform reads them
Here == [ent |-> ent]

\* the point at offset (ox, oy) from p, turned about p by the heading of p
Rotated(p, ox, oy) ==
    << p.x + DivR(ox * Cos(p.theta) - oy * Sin(p.theta), TrigScale),
       p.y + DivR(oy * Cos(p.theta) + ox * Sin(p.theta), TrigScale) >>

\* the cached sine and cosine of p are those of its heading
Current(p) == p.stheta = Sin(p.theta) /\ p.ctheta = Cos(p.theta)

(* C23: for every tile, every local point (x, y) and every parent heading,
   transform(x, y) is the parent position plus the offset (tile.x + x,
   tile.y + y) turned by the parent heading (the parent's cached sine and
   cosine being those of its heading); at heading 0 it is the translation by
   the offset; and after a tile update transform(0, 0) is (ax, ay). *)
C23_TransformRotates ==
    \A t \in Tiles :
        LET p == ent[ent[t].parent]
        IN  /\ Current(p) =>
                \A q \in LocalPoints :
                    LET ox == ent[t].x + q[1]
                        oy == ent[t].y + q[2]
                    IN  /\ transform(Here, t, q[1], q[2]) = Rotated(p, ox, oy)
                        /\ p.theta = 0 =>
                               transform(Here, t, q[1], q[2]) = << p.x + ox, p.y + oy >>
            /\ (pc = "updated" /\ ~crashed) =>
                   transform(Here, t, 0, 0) = << ent[t].ax, ent[t].ay >>

\* a tile update has run for a ship that is turned and away from the origin
C23_Witness ==
    /\ pc = "updated" /\ ~crashed
    /\ \E t \in Tiles :
           LET p == ent[ent[t].parent]
           IN  /\ Current(p)
               /\ p.stheta # 0 /\ p.ctheta # 0
               /\ ent[t].x # 0 /\ ent[t].y # 0
               /\ << ent[t].ax, ent[t].ay >> # << p.x + ent[t].x, p.y + ent[t].y >>
               /\ transform(Here, t, P(1), PosScale \div 2) = Rotated(p, ent[t].x + P(1), ent[t].y + PosScale \div 2)

\* the registry as the collision loop of a beam reads it
Registry == [ent |-> ent, objsWithHP |-> objsWithHP]

\* heads of beams to try: the places of the damageable entities
Heads == { << ent[o].x, ent[o].y >> : o \in Range(objsWithHP) }

\* some entity around the head is nearer to it than the first one in list order
NearerLater(over) == \E k \in DOMAIN over : over[k].far < over[1].far

(* C25: when the head of a beam is inside several damageable entities of
   another team in the same tick, exactly one of them loses hp: the one that
   comes first in objsWithHP (insertion order) among them, whatever its
   distance to the head. *)
C25_FirstInRegistryOrder ==
    /\ \A k \in DOMAIN hist.hits :
           LET h == hist.hits[k]
           IN  /\ Len(h.over) >= 1
               /\ h.victim = h.over[1].id
               /\ h.changed = { <<h.victim, -HpScale>> }
    /\ \A team \in {TEAM_ALLIANCE, TEAM_ENEMY}, head \in Heads :
           LET over == Overlapped(Registry, team, head[1], head[2])
           IN  BeamVictim(Registry, team, head[1], head[2])
                   = IF Len(over) = 0 THEN 0 ELSE over[1].id

\* a hit with two hostile entities around the head, only the first one hurt;
\* and a place where the first one in list order is not the nearest
C25_Witness ==
    /\ \E k \in DOMAIN hist.hits :
           LET h == hist.hits[k]
           IN  /\ Len(h.over) >= 2
               /\ h.over[2].far # h.over[1].far
               /\ h.changed = { <<h.over[1].id, -HpScale>> }
    /\ \E team \in {TEAM_ALLIANCE, TEAM_ENEMY}, head \in Heads :
           LET over == Overlapped(Registry, team, head[1], head[2])
           IN  /\ Len(over) >= 2
               /\ NearerLater(over)
               /\ BeamVictim(Registry, team, head[1], head[2]) = over[1].id

\* half-axes of shields and distances beyond the rim to try, in length units
Axes == { 1, 3, P(1), P(38), P(40), P(68) }

Beyond == { 1, 2, P(1), P(30) }

Shielding == { s \in Range(objs) : Kind(s) = "Shields" /\ ent[s].w > 0 /\ ent[s].h > 0 }

(* C26: for every shield with half-axes w, h > 0, isInside is true at the
   centre (cx, cy) of the ellipse and false at every point (cx + w + e, cy)
   with e > 0. *)
C26_CentreInsideBeyondRimOutside ==
    /\ \A s \in Shielding, e \in Beyond :
           /\ isInside(Registry, s, ent[s].x, ent[s].y)
           /\ ~isInside(Registry, s, ent[s].x + ent[s].w + e, ent[s].y)
    /\ \A w \in Axes, h \in Axes, e \in Beyond :
           /\ EllipseInside(0, 0, w, h)
           /\ ~EllipseInside(w + e, 0, w, h)

\* a shield that is no circle and has stopped a beam: the rim at cx + w is
\* inside, one step further is outside, though still nearer to the centre than h
C26_Witness ==
    \E s \in Shielding :
        /\ ent[s].w < ent[s].h
        /\ ent[s].y # 0
        /\ isInside(Registry, s, ent[s].x, ent[s].y)
        /\ isInside(Registry, s, ent[s].x + ent[s].w, ent[s].y)
        /\ ~isInside(Registry, s, ent[s].x + ent[s].w + 1, ent[s].y)
        /\ ent[s].w + 1 < ent[s].h
        /\ \E k \in DOMAIN hist.hits :
               /\ hist.hits[k].victim = s
               /\ isInside(Registry, s, hist.hits[k].x, hist.hits[k].y)

Vehicles == { v \in Range(objs) : Kind(v) = "AllianceShip" }

(* C27: at every draw pass and at every use by a tile transform or by
   shoot(), the cached stheta and ctheta of each vehicle are the sine and
   cosine of its current heading theta. *)
C27_CacheNeverStale ==
    /\ (pc = "purged" /\ ~crashed) => \A v \in Vehicles : Current(ent[v])
    /\ \A u \in hist.uses : Current(u)

(* C28: at every draw pass the culling rectangle (cullX1, cullY1, cullX2,
   cullY2) contains the four screen corners mapped back to the world with
   the camera state (camX, camY, camHt) that this draw pass uses. *)
C28_CullContainsView ==
    (pc = "purged" /\ ~crashed) =>
        /\ cam.cullX1 <= RevX(Camera, 0)
        /\ RevX(Camera, 600) <= cam.cullX2
        /\ cam.cullY1 <= RevY(Camera, 0)
        /\ RevY(Camera, 600) <= cam.cullY2

\* the AllianceShip that the player controlled when the frame began, 0 if none
Flown ==
    IF hist.me0.id # 0 /\ Kind(hist.me0.id) = "AllianceShip" THEN hist.me0.id ELSE 0

\* the square of the way of the flown ship in this frame
Travelled == Dist2(ent[Flown].x, ent[Flown].y, hist.me0.x, hist.me0.y)

\* maxSpeed * 0.1 s as a length
Reach(s) == (s.maxSpeed * PosScale) \div (100 * 10)

(* C29: whatever the duration dt of a frame, a player-controlled
   AllianceShip travels at most maxSpeed * 0.1 in that frame. *)
C29_TravelBounded ==
    (frame > 0 /\ ~crashed /\ Flown # 0) =>
        Travelled <= Reach(ent[Flown]) * Reach(ent[Flown])

(* C30: between two consecutive discharges of the same shooter (an
   AllianceShip by shoot(), a TurretStation under AI or player control, a
   SmallEnemyShip) the update passes count at least that shooter's cooldown
   of simulated time, whatever the inputs and the frame durations. *)
C30_CooldownBetweenDischarges ==
    \A g \in hist.gaps : g.gap >= g.need /\ g.need > 0

\* the kinds of shooter with a second discharge in the frame
Repeaters == { Kind(g.id) : g \in hist.gaps }

\* each kind of shooter has discharged again in this frame, the TurretStation
\* of the player among them, and so has a TurretStation of the AI
C30_Witness ==
    /\ ~crashed
    /\ Repeaters = { "AllianceShip", "SmallEnemyShip", "TurretStation" }
    /\ \E g \in hist.gaps :
           g.id = hist.me0.id /\ Kind(g.id) = "TurretStation" /\ g.gap >= g.need
    /\ \E g \in hist.gaps :
           g.id # hist.me0.id /\ Kind(g.id) = "TurretStation" /\ g.gap >= g.need

\* the hits of the frame in progress or just finished that struck entity s,
\* each by a beam of another team
HostileHits(s) ==
    { k \in (hist.hits0 + 1)..Len(hist.hits) :
          hist.hits[k].victim = s /\ ent[hist.hits[k].beam].team # ent[s].team }

(* C31: a beam leaves every shield of its own team as it is, even with its
   head inside the ellipse: over an update stage the hp of a shield falls and
   its brightness rises only if a beam of another team has hit it in that
   stage. *)
C31_OwnShieldUntouched ==
    [][ (pc = "idle" /\ pc' = "updated" /\ ~crashed') =>
            \A s \in DOMAIN ent :
                (/\ Kind(s) = "Shields"
                 /\ \/ ent'[s].hp < ent[s].hp
                    \/ ent'[s].brightness > ent[s].brightness)
                    => HostileHits(s)' # {} ]_vars

\* a dark shield with the head of a beam of its own team inside it, and a
\* shield lit by the hit of a hostile beam
C31_Witness ==
    /\ pc = "updated" /\ ~crashed
    /\ \E p \in hist.friendly :
           /\ Kind(p[2]) = "Shields" /\ ent[p[2]].brightness = 0
           /\ ent[p[2]].team = ent[p[1]].team
           /\ HostileHits(p[2]) = {}
    /\ \E s \in Range(objsWithHP) :
           Kind(s) = "Shields" /\ HostileHits(s) # {} /\ ent[s].brightness > 0

\* the story stage is one in which StoryController.update restores hp
BeforeBattle == scene_name = "game" /\ story.stage \notin {"BATTLE", "POST-BATTLE"}

\* the hits of the frame in progress or just finished on entity s
HitsInFrame(s) == { k \in (hist.hits0 + 1)..Len(hist.hits) : hist.hits[k].victim = s }

(* C32: in the game scene with the story stage neither BATTLE nor POST-BATTLE,
   every Shields and EnemyMotherShip of the damageable index has hp = maxHP when
   the purge reads it, and the purge removes none of them from the index or
   from the registry. *)
C32_IndestructibleBeforeBattle ==
    [][ (pc = "updated" /\ pc' = "purged" /\ BeforeBattle) =>
            \A k \in DOMAIN objsWithHP :
                Restorable(ent[objsWithHP[k]]) =>
                    /\ ent[objsWithHP[k]].hp = ent[objsWithHP[k]].maxHP
                    /\ objsWithHP[k] \in Range(objsWithHP')
                    /\ InObjs(objsWithHP[k]) => objsWithHP[k] \in Range(objs') ]_vars

\* a purge before the battle has kept a shield that was hit in that frame
C32_Witness ==
    /\ pc = "purged" /\ BeforeBattle
    /\ \E s \in Range(objsWithHP) :
           /\ Restorable(ent[s]) /\ HitsInFrame(s) # {}
           /\ s \in hist.resets
           /\ ent[s].hp = ent[s].maxHP

\* the AllianceShips of the damageable index
LiveShips == { i \in Range(objsWithHP) : Kind(i) = "AllianceShip" }

\* the AllianceMotherShips of the registry
Carriers == { i \in Range(objs) : Kind(i) = "AllianceMotherShip" }

\* the frames are over, or the program has left the game
Ended == crashed \/ quit \/ scene_name # "game" \/ frame = MaxFrames

(* C33: in the game scene the number of AllianceShips in the damageable index
   never exceeds 2; an update stage registers a new AllianceShip only if fewer
   than 2 were in the index; the mother ship's spawnShipCooldown stays within
   0..spawnShipReset between frames, and a frame that starts with fewer than 2
   either brings the cooldown down by its dt or, when dt exceeds what is left,
   registers one new AllianceShip: so one is registered within spawnShipReset
   of simulated time plus one frame.  Under fair scheduling of the frames, fewer
   than 2 leads to 2 again or to the end of the frames. *)
C33_RespawnToTwo ==
    /\ [][ (pc = "idle" /\ pc' = "updated" /\ ~crashed'
              /\ scene_name = "game" /\ scene_name' = "game") =>
             /\ Cardinality(LiveShips) <= 2 /\ Cardinality(LiveShips') <= 2
             /\ LiveShips' \ LiveShips # {} => Cardinality(LiveShips) < 2
             /\ \A m \in Carriers :
                    /\ ent[m].spawnShipCooldown \in 0..ent[m].spawnShipReset
                    /\ ent'[m].spawnShipCooldown \in 0..ent[m].spawnShipReset
                    /\ Cardinality(LiveShips) < 2 =>
                           \/ /\ ent'[m].spawnShipCooldown = ent[m].spawnShipReset
                              /\ Cardinality(LiveShips' \ LiveShips) = 1
                              /\ LiveShips' \ LiveShips \subseteq Range(objs')
                           \/ /\ ent'[m].spawnShipCooldown < ent[m].spawnShipCooldown
                              /\ LiveShips' = LiveShips ]_vars
    /\ (scene_name = "game" /\ Cardinality(LiveShips) < 2)
           ~> (Cardinality(LiveShips) = 2 \/ Ended)

\* an AllianceShip was destroyed and purged, and the mother ship has registered
\* a new one, which brings the number back to 2
C33_Witness ==
    /\ scene_name = "game" /\ ~crashed
    /\ Carriers # {}
    /\ Cardinality(LiveShips) = 2
    /\ \E d \in hist.removed : Kind(d) = "AllianceShip" /\ d \notin LiveShips
    /\ \E i \in LiveShips : i > Len(Battle("BATTLE", FALSE).ent)

\* C34: the speed of every AllianceShip is within 0..maxSpeed.
C34_SpeedWithinMax ==
    \A id \in DOMAIN ent :
        Kind(id) = "AllianceShip" => ent[id].speed \in 0..ent[id].maxSpeed

\* the player has held w in the ship under control through two frames, which
\* has brought its speed above half of maxSpeed, and the story drives ship2 at
\* half of maxSpeed
C34_Witness ==
    /\ me # 0 /\ Kind(me) = "AllianceShip" /\ "w" \in keys
    /\ 2 * ent[me].speed > ent[me].maxSpeed
    /\ ent[me].speed < ent[me].maxSpeed
    /\ ship2 # me /\ 2 * ent[ship2].speed = ent[ship2].maxSpeed

\* C35: every Shields entity has hp <= maxHP.
C35_ShieldHpAtMostMax ==
    \A id \in DOMAIN ent :
        Kind(id) = "Shields" => ent[id].hp <= ent[id].maxHP

\* C36: the target of every TurretStation and SmallEnemyShip of the registry
\* is empty or an entity of the damageable index.
C36_TargetInIndex ==
    \A id \in Range(objs) :
        Kind(id) \in {"TurretStation", "SmallEnemyShip"} =>
            ent[id].target = 0 \/ ent[id].target \in Range(objsWithHP)

Vehicle(id) == id # 0 /\ ent[id].kind \in {"AllianceShip", "TurretStation"}

(* C37: when the controlled entity changes to a vehicle, that vehicle is in the
   registry at that moment: a step never makes a purged AllianceShip or
   TurretStation the controlled entity. *)
C37_BoardsRegisteredOnly ==
    [][ (scene_name = "game" /\ scene_name' = "game" /\ me' # me /\ Vehicle(me)')
            => me' \in Range(objs) ]_vars

\* the Bird has boarded a ship of the registry
C37_Witness ==
    /\ pc = "updated" /\ ~crashed
    /\ Vehicle(me) /\ InObjs(me)
    /\ ent[me].cockpit # 0 /\ Kind(ent[me].cockpit) = "Bird"
    /\ hist.me0.id = ent[me].cockpit

\* the player's Bird: the level constructs it before bird2, so it is the first
\* Bird of the registry
Player == objs[CHOOSE i \in DOMAIN objs :
                   Kind(objs[i]) = "Bird" /\ \A j \in 1..(i - 1) : Kind(objs[j]) # "Bird"]

(* C38: in the game scene the controlled entity is never empty, and it is the
   player's Bird or an AllianceShip or TurretStation whose cockpit is that
   Bird. *)
C38_ControlledIsBirdOrItsVehicle ==
    scene_name = "game" =>
        /\ me # 0
        /\ \/ me = Player
           \/ Vehicle(me) /\ ent[me].cockpit = Player

\* the player has boarded a ship and left it again in the frame just updated
C38_Witness ==
    /\ scene_name = "game" /\ pc = "updated" /\ ~crashed
    /\ me = Player
    /\ Vehicle(hist.me0.id) /\ ent[hist.me0.id].cockpit = 0
    /\ Kind(hist.me0.id) = "AllianceShip"

\* the stages of the story in their order
Stages == << "EXPLORE", "PRE-BATTLE-1", "PRE-BATTLE-2", "BATTLE", "POST-BATTLE" >>

Rank(stage) == CHOOSE k \in DOMAIN Stages : Stages[k] = stage

\* the enemy mother ship that the story has cached is down
OctagonDown == story.octagonRef # 0 /\ ent[story.octagonRef].hp <= 0

(* C39: every step leaves the story stage as it is or moves it to the next
   stage of EXPLORE, PRE-BATTLE-1, PRE-BATTLE-2, BATTLE, POST-BATTLE; it moves
   only in the update of a frame that began with no dialog open; POST-BATTLE is
   entered only from BATTLE with the enemy mother ship's hp <= 0 after the
   update pass, every frame of BATTLE with that hp <= 0 enters it, and it is
   never left. *)
C39_StageOrder ==
    [][ /\ Rank(story.stage') \in { Rank(story.stage), Rank(story.stage) + 1 }
        /\ story.stage' # story.stage =>
               pc = "idle" /\ pc' = "updated" /\ ~story.inDialog
        /\ (story.stage' = "POST-BATTLE" /\ story.stage # "POST-BATTLE") =>
               story.stage = "BATTLE" /\ OctagonDown'
        /\ (/\ pc = "idle" /\ pc' = "updated" /\ ~crashed'
            /\ scene_name = "game" /\ story.stage = "BATTLE" /\ OctagonDown') =>
               story.stage' = "POST-BATTLE"
        /\ story.stage = "POST-BATTLE" => story.stage' = "POST-BATTLE" ]_vars

\* the battle is won: the frame that brought the enemy mother ship down has
\* opened the end dialog, and the frames after it have stayed in POST-BATTLE
C39_Witness ==
    /\ story.stage = "POST-BATTLE" /\ OctagonDown
    /\ story.currentDialog = "endDialog"
    /\ frame = MaxFrames /\ pc = "idle" /\ ~crashed

\* C40: while the story stage is PRE-BATTLE-2, with its dialog open or closed,
\* the controlled entity is the player's Bird and the frame has not failed.
C40_BirdThroughoutPreBattle2 ==
    (scene_name = "game" /\ story.stage = "PRE-BATTLE-2") => me = Player /\ ~crashed

=============================================================================
